---- MODULE Spec2Model ----
(***************************************************************************)
(* A model of slo2bq: the GCF function that exports SLO performance data   *)
(* from Stackdriver Service Monitoring to BigQuery, guarded by a lease     *)
(* kept in a label of the BigQuery dataset metadata.                       *)
(*                                                                         *)
(* Time is counted in minutes since the Unix epoch.  A string is a         *)
(* sequence of one-character strings, a date string "2006-01-02" is the    *)
(* triple <<year, month, day>> it spells.                                  *)
(***************************************************************************)
EXTENDS Integers, Sequences, FiniteSets, Bags, TLC

\* ------------------------------------------------------------- bounds

\* Number of invocations of SyncSloPerformance (each run id runs once).
NumRuns == 2

\* The clock is read in steps of TickMinutes and stops after MaxTicks steps.
TickMinutes == 5
MaxTicks == 2

\* ---------------------------------------------------------- constants

\* function.go:59, the lease is taken for 10 minutes.
LeaseMinutes == 10

\* deploy.sh, --timeout 540s: the GCF runtime kills a run after 9 minutes.
KillMinutes == 9

\* sd.go, var backfillDays (40 in production, 2 in TestSyncAllServices).
backfillDays == 2

\* sd.go, var bqBatchSize (100 in production, 1 in TestSyncAllServices).
bqBatchSize == 2

\* The clock at Init: 2015-05-10 15:00 UTC (TestSyncAllServices) plus 7h55m,
\* five minutes before local midnight in Europe/London.
StartClock == 23854500 + 475

MinutesPerDay == 24 * 60

\* The batch sizes of the runs that follow one another: the 1 of
\* TestSyncAllServices, and bqBatchSize.
BatchSizes == {1, bqBatchSize}

\* ------------------------------------------------------------ strings

Digits == <<"0", "1", "2", "3", "4", "5", "6", "7", "8", "9">>

DigitVal(c) == (CHOOSE i \in 1..10 : Digits[i] = c) - 1

IsDigit(c) == \E i \in 1..10 : Digits[i] = c

RECURSIVE FormatNat(_)
FormatNat(n) ==
    IF n < 10 THEN <<Digits[n + 1]>>
    ELSE Append(FormatNat(n \div 10), Digits[(n % 10) + 1])

\* strconv.FormatInt(n, 10)
FormatInt(n) == IF n < 0 THEN <<"-">> \o FormatNat(-n) ELSE FormatNat(n)

RECURSIVE ParseNat(_, _)
ParseNat(s, acc) ==
    IF s = <<>> THEN acc
    ELSE ParseNat(Tail(s), acc * 10 + DigitVal(Head(s)))

\* strconv.ParseInt(s, 10, 64): an optional sign, then one or more digits.
ParseInt(s) ==
    LET signed == s # <<>> /\ Head(s) \in {"+", "-"}
        body   == IF signed THEN Tail(s) ELSE s
    IN  IF body = <<>> \/ \E i \in 1..Len(body) : ~IsDigit(body[i])
        THEN [ok |-> FALSE, val |-> 0]
        ELSE [ok |-> TRUE,
              val |-> IF signed /\ Head(s) = "-"
                      THEN 0 - ParseNat(body, 0) ELSE ParseNat(body, 0)]

\* --------------------------------------------------------------- time

\* time.Time.Unix(): seconds since the epoch.
Unix(t) == t * 60

\* A *time.Location: the offset (minutes east of UTC) before the first
\* transition, and the transitions in order.
London ==
    [first |-> 0,
     tx    |-> << [when |-> 23793180, off |-> 60],    \* 2015-03-29 01:00 UTC
               [when |-> 24095580, off |-> 0] >>]     \* 2015-10-25 01:00 UTC

\* Australia/Lord_Howe in 2015: a zone whose daylight shift is 30 minutes.
LordHowe ==
    [first |-> 660,
     tx    |-> << [when |-> 23802660, off |-> 630],   \* 2015-04-04 15:00 UTC
               [when |-> 24064770, off |-> 660] >>]   \* 2015-10-03 15:30 UTC

\* America/Sao_Paulo in 2015: a zone west of Greenwich whose daylight time
\* starts at local midnight (00:00 becomes 01:00).
SaoPaulo ==
    [first |-> 0 - 120,
     tx    |-> << [when |-> 23742840, off |-> 0 - 180],   \* 2015-02-22 02:00 UTC
               [when |-> 24085620, off |-> 0 - 120] >>]   \* 2015-10-18 03:00 UTC

\* Location.lookup: the offset in use at instant t and the interval
\* [start, end) it is in use for (hasStart/hasEnd: the interval is bounded).
Lookup(loc, t) ==
    LET n == Len(loc.tx)
        before == {i \in 1..n : loc.tx[i].when <= t}
    IN  IF before = {}
        THEN [off |-> loc.first, hasStart |-> FALSE, start |-> 0,
              hasEnd |-> n > 0, end |-> IF n > 0 THEN loc.tx[1].when ELSE 0]
        ELSE LET i == CHOOSE k \in before : \A j \in before : j <= k
             IN  [off |-> loc.tx[i].off, hasStart |-> TRUE,
                  start |-> loc.tx[i].when,
                  hasEnd |-> i < n,
                  end |-> IF i < n THEN loc.tx[i + 1].when ELSE 0]

\* Days since 1970-01-01 of the civil date y-m-d; d may lie outside the
\* month, as in time.Date, which normalises it.
DaysFromCivil(y, m, d) ==
    LET yy  == IF m <= 2 THEN y - 1 ELSE y
        era == yy \div 400
        yoe == yy - era * 400
        mp  == IF m > 2 THEN m - 3 ELSE m + 9
        doy == (153 * mp + 2) \div 5 + d - 1
        doe == yoe * 365 + yoe \div 4 - yoe \div 100 + doy
    IN  era * 146097 + doe - 719468

\* The civil date <<year, month, day>> of a day number.
CivilFromDays(z0) ==
    LET z   == z0 + 719468
        era == z \div 146097
        doe == z - era * 146097
        yoe == (doe - doe \div 1460 + doe \div 36524 - doe \div 146096) \div 365
        doy == doe - (365 * yoe + yoe \div 4 - yoe \div 100)
        mp  == (5 * doy + 2) \div 153
        d   == doy - (153 * mp + 2) \div 5 + 1
        m   == IF mp < 10 THEN mp + 3 ELSE mp - 9
        y   == yoe + era * 400
    IN  <<IF m <= 2 THEN y + 1 ELSE y, m, d>>

\* t.In(loc): the wall clock reading of instant t, in minutes.
WallClock(t, loc) == t + Lookup(loc, t).off

\* t.In(loc).Date() and t.Format("2006-01-02")
DateOf(t, loc) == CivilFromDays(WallClock(t, loc) \div MinutesPerDay)

\* time.Date(y, m, d, 0, 0, 0, 0, loc) plus minuteOfDay minutes of wall clock.
GoDate(y, m, d, minuteOfDay, loc) ==
    LET wall == DaysFromCivil(y, m, d) * MinutesPerDay + minuteOfDay
        z    == Lookup(loc, wall)
        utc  == wall - z.off
        off  == IF z.off = 0 THEN 0
                ELSE IF z.hasStart /\ utc < z.start
                     THEN Lookup(loc, z.start - 1).off
                ELSE IF z.hasEnd /\ utc >= z.end
                     THEN Lookup(loc, z.end).off
                ELSE z.off
    IN  wall - off

\* now.In(loc).AddDate(0, 0, -daysAgo)
AddDays(now, loc, days) ==
    LET wall == WallClock(now, loc)
        date == CivilFromDays(wall \div MinutesPerDay)
    IN  GoDate(date[1], date[2], date[3] + days, wall % MinutesPerDay, loc)

daysAgoMidnightTimestamp(now, loc, daysAgo) ==
    LET date == DateOf(AddDays(now, loc, 0 - daysAgo), loc)
    IN  GoDate(date[1], date[2], date[3], 0, loc)

\* Dates compare as calendar dates (the index query's `date >= startDate`).
DateGeq(a, b) ==
    \/ a[1] > b[1]
    \/ a[1] = b[1] /\ a[2] > b[2]
    \/ a[1] = b[1] /\ a[2] = b[2] /\ a[3] >= b[3]

\* ------------------------------------------------------------ catalog

\* clients.Service.HumanName; Name is held split at "/".
ServiceHumanName(s) ==
    IF s.DisplayName # "" THEN s.DisplayName ELSE s.Name[4]

\* clients.SLO.HumanName; Name is held split at "/".
SLOHumanName(s) ==
    IF s.DisplayName # "" THEN s.DisplayName ELSE s.Name[6]

\* A legacy SLO (select_slo_counts), goal in thousandths.
LegacySLO(id, display, goal) ==
    [Name |-> <<"projects", "project", "services", "s1",
                "serviceLevelObjectives", id>>,
     DisplayName |-> display, Goal |-> goal,
     SLI |-> [kind |-> "legacy", Good |-> "", Bad |-> "", Total |-> ""]]

\* An SLO on a GoodTotalRatioSLI with the filter expressions good, bad and
\* total ("": not set).
RatioSLO(id, display, goal, good, bad, total) ==
    [Name |-> <<"projects", "project", "services", "s1",
                "serviceLevelObjectives", id>>,
     DisplayName |-> display, Goal |-> goal,
     SLI |-> [kind |-> "ratio", Good |-> good, Bad |-> bad, Total |-> total]]

\* An SLO that is not on a GoodTotalRatioSLI (RequestBasedSLI or its
\* GoodTotalRatioSLI is nil).
OtherSLO(id, display, goal) ==
    [Name |-> <<"projects", "project", "services", "s1",
                "serviceLevelObjectives", id>>,
     DisplayName |-> display, Goal |-> goal,
     SLI |-> [kind |-> "other", Good |-> "", Bad |-> "", Total |-> ""]]

\* The catalog of TestSyncAllServices: svc1 with slo1 (0.99) and slo2 (0.5).
CatalogTest ==
    << [Name |-> <<"projects", "project", "services", "s1">>,
        DisplayName |-> "svc1",
        SLOs |-> << LegacySLO("id1", "slo1", 990),
                    LegacySLO("id2", "slo2", 500) >>] >>

\* Two SLOs of one service with the same human-readable name: one by its
\* display name, one by the last element of its resource name.
CatalogSameName ==
    << [Name |-> <<"projects", "project", "services", "s1">>,
        DisplayName |-> "",
        SLOs |-> << LegacySLO("id1", "slo1", 990),
                    LegacySLO("slo1", "", 500) >>] >>

\* One service with one SLO.
CatalogOne ==
    << [Name |-> <<"projects", "project", "services", "s1">>,
        DisplayName |-> "svc1",
        SLOs |-> << LegacySLO("id1", "slo1", 990) >>] >>

\* A service without SLOs, and a project without services.
CatalogNoSLOs ==
    << [Name |-> <<"projects", "project", "services", "s1">>,
        DisplayName |-> "svc1",
        SLOs |-> << >>] >>

CatalogEmpty == << >>

\* A service whose first SLO is not on a GoodTotalRatioSLI, and a second
\* service after it.
CatalogSkip ==
    << [Name |-> <<"projects", "project", "services", "s1">>,
        DisplayName |-> "svc1",
        SLOs |-> << OtherSLO("id1", "slo1", 990),
                    RatioSLO("id2", "slo2", 500, "f_good", "", "f_total") >>],
       [Name |-> <<"projects", "project", "services", "s2">>,
        DisplayName |-> "svc2",
        SLOs |-> << RatioSLO("id3", "slo3", 900, "f_good", "f_bad", "") >>] >>

\* A service whose only SLO is not on a GoodTotalRatioSLI.
CatalogOnlyOther ==
    << [Name |-> <<"projects", "project", "services", "s1">>,
        DisplayName |-> "svc1",
        SLOs |-> << OtherSLO("id1", "slo1", 990) >>] >>

\* slo1 on the filters bad and total, and after it slo2 with the good
\* filter alone.
CatalogIncomplete ==
    << [Name |-> <<"projects", "project", "services", "s1">>,
        DisplayName |-> "svc1",
        SLOs |-> << RatioSLO("id1", "slo1", 990, "", "f_bad", "f_total"),
                    RatioSLO("id2", "slo2", 500, "f_good", "", "") >>] >>

\* The same two SLOs, slo2 with good and total: CatalogIncomplete before
\* the total filter of slo2 was taken away.
CatalogComplete ==
    << [Name |-> <<"projects", "project", "services", "s1">>,
        DisplayName |-> "svc1",
        SLOs |-> << RatioSLO("id1", "slo1", 990, "", "f_bad", "f_total"),
                    RatioSLO("id2", "slo2", 500, "f_good", "", "f_total") >>] >>

\* One service with one SLO (select_slo_counts) that may be without time
\* series, and the same with an SLO on the good and total filters.
CatalogQuiet ==
    << [Name |-> <<"projects", "project", "services", "s1">>,
        DisplayName |-> "svc1",
        SLOs |-> << LegacySLO("id1", "quiet", 990) >>] >>

CatalogQuietRatio ==
    << [Name |-> <<"projects", "project", "services", "s1">>,
        DisplayName |-> "svc1",
        SLOs |-> << RatioSLO("id1", "quiet", 990, "f_good", "", "f_total") >>] >>

CatalogsQuiet == {CatalogQuiet, CatalogQuietRatio}

\* The catalogs with SLOs of the several indicator shapes.
CatalogsShapes == {CatalogSkip, CatalogOnlyOther, CatalogIncomplete, CatalogComplete}

\* The catalogs of the runs that follow one another, and of the runs that
\* may overlap.
Catalogs == {CatalogTest, CatalogSameName, CatalogNoSLOs, CatalogEmpty}
CatalogsOverlap == {CatalogOne}

\* ------------------------------------------------------------ metrics

\* A time series of one point; a DOUBLE value is held in tenths.
Series(eventType, valueType, points) ==
    [event_type |-> eventType, ValueType |-> valueType, Points |-> points]

\* What ListTimeSeries answers to select_slo_counts in the runs modelled:
\* an error, or the good and bad series of TestSyncAllServices (100 and 11).
LegacyResponses ==
    { [err |-> TRUE, series |-> <<>>],
      [err |-> FALSE,
       series |-> << Series("good", "DOUBLE", <<1000>>),
                     Series("bad", "DOUBLE", <<110>>) >>] }

\* int64(f) of a float held in tenths: truncation toward zero.
Int64OfTenths(t) == IF t >= 0 THEN t \div 10 ELSE 0 - ((0 - t) \div 10)

RECURSIVE SumLegacyBadIsGood(_, _, _)
\* The loop with the bad series added to good as well.
SumLegacyBadIsGood(series, good, total) ==
    IF series = <<>> THEN [err |-> "", Good |-> Int64OfTenths(good),
                           Total |-> Int64OfTenths(total)]
    ELSE LET s == Head(series)
         IN  IF Len(s.Points) # 1 THEN [err |-> "points", Good |-> 0, Total |-> 0]
             ELSE IF s.ValueType # "DOUBLE"
                  THEN [err |-> "valueType", Good |-> 0, Total |-> 0]
             ELSE IF s.event_type \in {"good", "bad"}
                  THEN SumLegacyBadIsGood(Tail(series), good + s.Points[1],
                                          total + s.Points[1])
             ELSE [err |-> "eventType", Good |-> 0, Total |-> 0]

RECURSIVE SumLegacy(_, _, _)
\* The loop of getGoodTotal over the series: good and total in tenths.
SumLegacy(series, good, total) ==
    IF series = <<>> THEN [err |-> "", Good |-> Int64OfTenths(good),
                           Total |-> Int64OfTenths(total)]
    ELSE LET s == Head(series)
         IN  IF Len(s.Points) # 1 THEN [err |-> "points", Good |-> 0, Total |-> 0]
             ELSE IF s.ValueType # "DOUBLE"
                  THEN [err |-> "valueType", Good |-> 0, Total |-> 0]
             ELSE IF s.event_type = "bad"
                  THEN SumLegacy(Tail(series), good, total + s.Points[1])
             ELSE IF s.event_type = "good"
                  THEN SumLegacy(Tail(series), good + s.Points[1],
                                 total + s.Points[1])
             ELSE [err |-> "eventType", Good |-> 0, Total |-> 0]

\* A getGoodTotal that does not count the series.
getGoodTotalAnyCount(resp) ==
    IF resp.err THEN [err |-> "ListTimeSeries", Good |-> 0, Total |-> 0]
    ELSE SumLegacy(resp.series, 0, 0)

\* getGoodTotal (select_slo_counts form) on the answer of ListTimeSeries.
getGoodTotal(resp) ==
    IF resp.err THEN [err |-> "ListTimeSeries", Good |-> 0, Total |-> 0]
    ELSE IF Len(resp.series) = 0 THEN [err |-> "", Good |-> 0, Total |-> 0]
    ELSE IF Len(resp.series) # 2 THEN [err |-> "series", Good |-> 0, Total |-> 0]
    ELSE SumLegacy(resp.series, 0, 0)

\* A getCounter for which an answer without series is an error.
getCounterStrict(resp) ==
    IF resp.err THEN [err |-> "ListTimeSeries", value |-> 0]
    ELSE IF Len(resp.series) # 1 THEN [err |-> "series", value |-> 0]
    ELSE IF Len(resp.series[1].Points) # 1 THEN [err |-> "points", value |-> 0]
    ELSE IF resp.series[1].ValueType = "DOUBLE"
         THEN [err |-> "", value |-> Int64OfTenths(resp.series[1].Points[1])]
    ELSE IF resp.series[1].ValueType = "INT64"
         THEN [err |-> "", value |-> resp.series[1].Points[1]]
    ELSE [err |-> "valueType", value |-> 0]

\* getCounter on the answer of ListTimeSeries to one filter; the point of
\* a DOUBLE series is held in tenths, that of an INT64 series as it is.
getCounter(resp) ==
    IF resp.err THEN [err |-> "ListTimeSeries", value |-> 0]
    ELSE IF Len(resp.series) = 0 THEN [err |-> "", value |-> 0]
    ELSE IF Len(resp.series) # 1 THEN [err |-> "series", value |-> 0]
    ELSE IF Len(resp.series[1].Points) # 1 THEN [err |-> "points", value |-> 0]
    ELSE IF resp.series[1].ValueType = "DOUBLE"
         THEN [err |-> "", value |-> Int64OfTenths(resp.series[1].Points[1])]
    ELSE IF resp.series[1].ValueType = "INT64"
         THEN [err |-> "", value |-> resp.series[1].Points[1]]
    ELSE [err |-> "valueType", value |-> 0]

\* The error of getGoodTotal for an SLI with fewer than two filters.
IncompleteError == "expected 2 out of 3 filter expressions"

\* The first counter returned as Good: right where the first counter is
\* the good one, wrong where good is to be derived from bad and total.
TwoCountersFirstAsGood(first, second, good, total) ==
    IF first.err # "" THEN [err |-> first.err, Good |-> 0, Total |-> 0]
    ELSE IF second.err # "" THEN [err |-> second.err, Good |-> 0, Total |-> 0]
    ELSE [err |-> "", Good |-> first.value, Total |-> total]

\* The two getCounter calls of one branch of getGoodTotal: the error of
\* the first that fails, or what the branch returns.
TwoCounters(first, second, good, total) ==
    IF first.err # "" THEN [err |-> first.err, Good |-> 0, Total |-> 0]
    ELSE IF second.err # "" THEN [err |-> second.err, Good |-> 0, Total |-> 0]
    ELSE [err |-> "", Good |-> good, Total |-> total]

\* A getGoodTotal that takes an SLI with fewer than two filters for one
\* without events.
getGoodTotalRatioLenient(sli, answers) ==
    IF sli.Good # "" /\ sli.Total # ""
    THEN LET good == getCounter(answers[sli.Good])
             total == getCounter(answers[sli.Total])
         IN  TwoCounters(good, total, good.value, total.value)
    ELSE IF sli.Good # "" /\ sli.Bad # ""
    THEN LET good == getCounter(answers[sli.Good])
             bad == getCounter(answers[sli.Bad])
         IN  TwoCounters(good, bad, good.value, good.value + bad.value)
    ELSE IF sli.Bad # "" /\ sli.Total # ""
    THEN LET bad == getCounter(answers[sli.Bad])
             total == getCounter(answers[sli.Total])
         IN  TwoCounters(bad, total, total.value - bad.value, total.value)
    ELSE [err |-> "", Good |-> 0, Total |-> 0]

\* getGoodTotal (GoodTotalRatioSLI form); answers[f] is the answer of
\* ListTimeSeries to filter f.
getGoodTotalRatio(sli, answers) ==
    IF sli.Good # "" /\ sli.Total # ""
    THEN LET good == getCounter(answers[sli.Good])
             total == getCounter(answers[sli.Total])
         IN  TwoCounters(good, total, good.value, total.value)
    ELSE IF sli.Good # "" /\ sli.Bad # ""
    THEN LET good == getCounter(answers[sli.Good])
             bad == getCounter(answers[sli.Bad])
         IN  TwoCounters(good, bad, good.value, good.value + bad.value)
    ELSE IF sli.Bad # "" /\ sli.Total # ""
    THEN LET bad == getCounter(answers[sli.Bad])
             total == getCounter(answers[sli.Total])
         IN  TwoCounters(bad, total, total.value - bad.value, total.value)
    ELSE [err |-> IncompleteError, Good |-> 0, Total |-> 0]

\* The counters asked when every filter that is set is asked.
CountersAskedAll(sli, answers) ==
    (IF sli.Good # "" THEN <<sli.Good>> ELSE <<>>)
      \o (IF sli.Bad # "" THEN <<sli.Bad>> ELSE <<>>)
      \o (IF sli.Total # "" THEN <<sli.Total>> ELSE <<>>)

\* One branch of getGoodTotal: getCounter is called on the first filter,
\* and on the second when the first call returned no error.
AskedTwo(first, second, answers) ==
    IF getCounter(answers[first]).err # "" THEN <<first>> ELSE <<first, second>>

\* The filters getGoodTotal (GoodTotalRatioSLI form) calls getCounter with,
\* in the order of the calls.
CountersAsked(sli, answers) ==
    IF sli.Good # "" /\ sli.Total # "" THEN AskedTwo(sli.Good, sli.Total, answers)
    ELSE IF sli.Good # "" /\ sli.Bad # "" THEN AskedTwo(sli.Good, sli.Bad, answers)
    ELSE IF sli.Bad # "" /\ sli.Total # "" THEN AskedTwo(sli.Bad, sli.Total, answers)
    ELSE <<>>

\* newRecords, lines 102-107: the row of a day is appended when
\* getGoodTotal returned no error.
Emitted(gt, row) == IF gt.err # "" THEN <<>> ELSE <<row>>

\* The filter expressions of the catalogs.
Filters == {"f_good", "f_bad", "f_total"}

\* What ListTimeSeries answers to a filter in the runs modelled: an error,
\* or one series with the sum: 100 good, 11 bad, 111 in total.
CounterResponses(f) ==
    { [err |-> TRUE, series |-> <<>>],
      [err |-> FALSE,
       series |-> << Series("", "DOUBLE",
                            << CASE f = "f_good" -> 1000
                                 [] f = "f_bad" -> 110
                                 [] OTHER -> 1110 >>) >>] }

\* The SLOs of the catalogs for which the backend may hold no time series
\* on a day (no request was served), and later hold some.
Quiet(slo) == slo.DisplayName = "quiet"

\* The answer of ListTimeSeries without series, for the SLOs that may get it.
NoSeries(slo) == IF Quiet(slo) THEN {[err |-> FALSE, series |-> <<>>]} ELSE {}

\* What getGoodTotal may return for an SLO, over the answers the metric
\* client may give.
GoodTotals(slo) ==
    IF slo.SLI.kind = "ratio"
    THEN {getGoodTotalRatio(slo.SLI, answers) :
             answers \in {a \in [Filters -> UNION {CounterResponses(f) : f \in Filters}
                                               \cup NoSeries(slo)] :
                             \A f \in Filters :
                                 a[f] \in CounterResponses(f) \cup NoSeries(slo)}}
    ELSE {getGoodTotal(resp) : resp \in LegacyResponses \cup NoSeries(slo)}

\* getGoodTotal makes a ListTimeSeries request for the SLO: not so for a
\* GoodTotalRatioSLI with fewer than two filters.
Requests(slo) ==
    \/ slo.SLI.kind = "legacy"
    \/ slo.SLI.Good # "" /\ slo.SLI.Total # ""
    \/ slo.SLI.Good # "" /\ slo.SLI.Bad # ""
    \/ slo.SLI.Bad # "" /\ slo.SLI.Total # ""

\* -------------------------------------------------------------- store

\* clients.BQRow
BQRow(service, slo, date, good, total, target) ==
    [Service |-> service, SLO |-> slo, Date |-> date,
     Total |-> total, Good |-> good, Target |-> target]

bqMapKey(service, slo, date) == [Service |-> service, SLO |-> slo, Date |-> date]

KeyOf(row) == bqMapKey(row.Service, row.SLO, row.Date)

RECURSIVE SeqToBag(_)
\* The rows of one Put, as a bag.
SeqToBag(rows) ==
    IF rows = <<>> THEN EmptyBag
    ELSE SetToBag({Head(rows)}) (+) SeqToBag(Tail(rows))

\* ---------------------------------------------------------------- state

Runs == 1..NumRuns

\* The value of an absent label, and the etag that states no precondition.
NoLabel == <<>>
NoEtag == 0

\* cfg.TimeZone, loaded
cfgLoc == London

VARIABLES
    now,         \* the clock
    label,       \* dataset label slo2bq_lease_expiration (NoLabel: absent)
    etag,        \* the ETag of the dataset metadata
    store,       \* the rows of table `data`, a bag
    catalog,     \* the services and SLOs Stackdriver lists
    pc,          \* where each run is
    expiration,  \* the expiration each run asks its lease for
    readEtag,    \* the etag newBqLease read
    existing,    \* the bqMap of each run
    si, oi,      \* the service and the SLO each run is at
    daysAgo,     \* loop variable of newRecords
    start,       \* `start` of the current iteration of newRecords
    res,         \* `rows` of newRecords
    rows,        \* `rows` of syncAllServices
    err,         \* what SyncSloPerformance returned ("": nil)
    queried,     \* history: the ListTimeSeries requests of each run
    puts,        \* history: the batches each run passed to Put
    ranOn,       \* history: the local dates of each run's readings of the clock
    outlived,    \* history: a run was between Acquire and Release at or
                 \* after the expiration of its lease
    batchSize,   \* the value of var bqBatchSize in this build
    arg, ret     \* the argument and the result of a function called on
                 \* its own, as the table-driven tests call it

shared == <<now, label, etag, store, catalog>>
leaseVars == <<expiration, readEtag>>
syncVars == <<existing, si, oi, daysAgo, start, res, rows>>
history == <<queried, puts, ranOn, outlived>>
fixed == <<batchSize, arg, ret>>
vars == <<shared, pc, err, leaseVars, syncVars, history, fixed>>

\* No function has been called on its own.
NoCall == <<>>

\* The values the lease label may hold before the first run: absent, the
\* "bogus" of TestBQLeaseErrors, digits followed by a letter, or a sign
\* alone.
InitLabels ==
    {NoLabel, <<"b", "o", "g", "u", "s">>, <<"1", "2", "3", "x">>, <<"-">>}

InitWith(catalogs, sizes) ==
    /\ batchSize \in sizes
    /\ arg = NoCall
    /\ ret = NoCall
    /\ now = StartClock
    /\ label \in InitLabels
    /\ etag = 1
    /\ store = EmptyBag
    /\ catalog \in catalogs
    /\ pc = [r \in Runs |-> "idle"]
    /\ expiration = [r \in Runs |-> 0]
    /\ readEtag = [r \in Runs |-> NoEtag]
    /\ existing = [r \in Runs |-> {}]
    /\ si = [r \in Runs |-> 0]
    /\ oi = [r \in Runs |-> 0]
    /\ daysAgo = [r \in Runs |-> 0]
    /\ start = [r \in Runs |-> 0]
    /\ res = [r \in Runs |-> <<>>]
    /\ rows = [r \in Runs |-> <<>>]
    /\ err = [r \in Runs |-> ""]
    /\ queried = [r \in Runs |-> {}]
    /\ puts = [r \in Runs |-> <<>>]
    /\ ranOn = [r \in Runs |-> {}]
    /\ outlived = FALSE

\* A run between the return of newBqLease and the return of its Close.
MidFlight(r) ==
    pc[r] \in {"readBQMap", "Services", "SLOs", "dayStart", "dayEnd",
               "Put", "finalPut", "Close"}

\* A run that has started and has neither returned nor been killed.
Live(r) == pc[r] \in {"readLabel", "writeLabel"} \/ MidFlight(r)

\* --------------------------------------------------------------- lease

\* An update that takes any etag: the precondition is not looked at.
WriteAcceptedAlways(e) == TRUE

\* BQClient.WriteDatasetMetadataLabel: Dataset.Update with an etag fails
\* unless the etag is the current one; an empty etag states no precondition.
\* An empty value deletes the label.
WriteAccepted(e) == e = NoEtag \/ e = etag

\* SyncSloPerformance up to the call of newBqLease: the configuration is
\* parsed, the BigQuery client made, the expiration computed.
StartRun(r) ==
    /\ UNCHANGED fixed
    /\ pc[r] = "idle"
    /\ \E ok \in BOOLEAN :
         /\ pc' = [pc EXCEPT ![r] = IF ok THEN "readLabel" ELSE "done"]
         /\ err' = [err EXCEPT ![r] = IF ok THEN "" ELSE "config"]
         /\ expiration' = [expiration EXCEPT ![r] =
                              IF ok THEN now + LeaseMinutes ELSE 0]
    /\ UNCHANGED <<shared, readEtag, syncVars, history>>

\* The checks without the comparison with the clock: no lease is found valid.
LeaseCheckBlind(exp, clock) ==
    IF exp = NoLabel THEN ""
    ELSE IF ~ParseInt(exp).ok THEN "Could not parse BQ lease expiration time"
    ELSE ""

\* The checks taking every timestamp, past or future, for a valid lease.
LeaseCheckAnyTimestamp(exp, clock) ==
    IF exp = NoLabel THEN ""
    ELSE IF ~ParseInt(exp).ok THEN "Could not parse BQ lease expiration time"
    ELSE "existing lease is still valid"

\* The checks taking a value that does not parse for no lease at all.
LeaseCheckLenient(exp, clock) ==
    IF exp = NoLabel THEN ""
    ELSE IF ~ParseInt(exp).ok THEN ""
    ELSE IF ParseInt(exp).val > Unix(clock) THEN "existing lease is still valid"
    ELSE ""

\* The outcome of newBqLease's checks of the label value it read.
LeaseCheck(exp, clock) ==
    IF exp = NoLabel THEN ""
    ELSE LET ts == ParseInt(exp)
         IN  IF ~ts.ok THEN "Could not parse BQ lease expiration time"
             ELSE IF ts.val > Unix(clock)
                  THEN "existing lease is still valid"
             ELSE ""

\* newBqLease: ReadDatasetMetadataLabel and the checks of what it read.
ReadLabel(r) ==
    /\ UNCHANGED fixed
    /\ pc[r] = "readLabel"
    /\ \E readErr \in BOOLEAN :
         LET e == IF readErr THEN "ReadDatasetMetadataLabel"
                  ELSE LeaseCheck(label, now)
         IN  /\ err' = [err EXCEPT ![r] = e]
             /\ pc' = [pc EXCEPT ![r] = IF e = "" THEN "writeLabel" ELSE "done"]
             /\ readEtag' = [readEtag EXCEPT ![r] = IF e = "" THEN etag ELSE NoEtag]
             /\ expiration' = [expiration EXCEPT ![r] =
                                  IF e = "" THEN expiration[r] ELSE 0]
    /\ UNCHANGED <<shared, syncVars, history>>

\* newBqLease with the Close deferred before the lease is held: a write
\* that fails is followed by the Close all the same.
WriteLabelThenClose(r) ==
    /\ UNCHANGED fixed
    /\ pc[r] = "writeLabel"
    /\ \E writeErr \in BOOLEAN :
         IF ~writeErr /\ WriteAccepted(readEtag[r])
         THEN /\ label' = FormatInt(Unix(expiration[r]))
              /\ etag' = etag + 1
              /\ pc' = [pc EXCEPT ![r] = "readBQMap"]
              /\ outlived' = (outlived \/ expiration[r] <= now)
              /\ UNCHANGED <<err, leaseVars>>
         ELSE /\ err' = [err EXCEPT ![r] = "Could not update BQ lease"]
              /\ pc' = [pc EXCEPT ![r] = "Close"]
              /\ UNCHANGED <<label, etag, outlived, leaseVars>>
    /\ UNCHANGED <<now, store, catalog, syncVars, queried, puts, ranOn>>

\* newBqLease: the write of the new expiration under the etag read.
WriteLabel(r) ==
    /\ UNCHANGED fixed
    /\ pc[r] = "writeLabel"
    /\ \E writeErr \in BOOLEAN :
         IF ~writeErr /\ WriteAccepted(readEtag[r])
         THEN /\ label' = FormatInt(Unix(expiration[r]))
              /\ etag' = etag + 1
              /\ pc' = [pc EXCEPT ![r] = "readBQMap"]
              /\ outlived' = (outlived \/ expiration[r] <= now)
              /\ UNCHANGED <<err, leaseVars>>
         ELSE /\ err' = [err EXCEPT ![r] = "Could not update BQ lease"]
              /\ pc' = [pc EXCEPT ![r] = "done"]
              /\ expiration' = [expiration EXCEPT ![r] = 0]
              /\ readEtag' = [readEtag EXCEPT ![r] = NoEtag]
              /\ UNCHANGED <<label, etag, outlived>>
    /\ UNCHANGED <<now, store, catalog, syncVars, queried, puts, ranOn>>

\* The run is over (it returned or was killed): its locals are gone.
Forget(r) ==
    /\ expiration' = [expiration EXCEPT ![r] = 0]
    /\ readEtag' = [readEtag EXCEPT ![r] = NoEtag]
    /\ existing' = [existing EXCEPT ![r] = {}]
    /\ si' = [si EXCEPT ![r] = 0]
    /\ oi' = [oi EXCEPT ![r] = 0]
    /\ daysAgo' = [daysAgo EXCEPT ![r] = 0]
    /\ start' = [start EXCEPT ![r] = 0]
    /\ res' = [res EXCEPT ![r] = <<>>]
    /\ rows' = [rows EXCEPT ![r] = <<>>]
    /\ queried' = [queried EXCEPT ![r] = {}]
    /\ puts' = [puts EXCEPT ![r] = <<>>]

\* A Close that passes the etag newBqLease read.
CloseUnderEtag(r) ==
    /\ UNCHANGED fixed
    /\ pc[r] = "Close"
    /\ \E writeErr \in BOOLEAN :
         IF ~writeErr /\ WriteAccepted(readEtag[r])
         THEN label' = NoLabel /\ etag' = etag + 1
         ELSE UNCHANGED <<label, etag>>
    /\ pc' = [pc EXCEPT ![r] = "done"]
    /\ Forget(r)
    /\ UNCHANGED <<now, store, catalog, err, ranOn, outlived>>

\* bqLease.Close, deferred: the label is deleted under no etag, and what
\* the write returns is dropped.
Close(r) ==
    /\ UNCHANGED fixed
    /\ pc[r] = "Close"
    /\ \E writeErr \in BOOLEAN :
         IF ~writeErr /\ WriteAccepted(NoEtag)
         THEN label' = NoLabel /\ etag' = etag + 1
         ELSE UNCHANGED <<label, etag>>
    /\ pc' = [pc EXCEPT ![r] = "done"]
    /\ Forget(r)
    /\ UNCHANGED <<now, store, catalog, err, ranOn, outlived>>

\* ---------------------------------------------------------------- sync

\* A return without `defer l.Close(ctx)`: an error ends the run at once.
ReturnNoDefer(r, e) ==
    /\ err' = [err EXCEPT ![r] = e]
    /\ pc' = [pc EXCEPT ![r] = IF e = "" THEN "Close" ELSE "done"]

\* A return that loses the error: the caller is handed nil.
ReturnNil(r, e) ==
    /\ err' = [err EXCEPT ![r] = ""]
    /\ pc' = [pc EXCEPT ![r] = "Close"]

\* SyncSloPerformance returns e from inside syncAllServices (or before it,
\* from making the clients): the deferred Close is next.
Return(r, e) ==
    /\ err' = [err EXCEPT ![r] = e]
    /\ pc' = [pc EXCEPT ![r] = "Close"]

\* The query with `date > startDate`: the oldest day of the window is left out.
QueryRowsAfter(startDate) ==
    {row \in BagToSet(store) : DateGeq(row.Date, startDate) /\ row.Date # startDate}

\* The rows the query of readBQMap selects: those with date >= startDate.
QueryRows(startDate) ==
    {row \in BagToSet(store) : DateGeq(row.Date, startDate)}

RECURSIVE SetToSeq(_)
\* The rows of a query's answer, in some order.
SetToSeq(S) ==
    IF S = {} THEN <<>>
    ELSE LET x == CHOOSE y \in S : TRUE
         IN  <<x>> \o SetToSeq(S \ {x})

\* bqMap.Add
Add(b, service, slo, date) == b \cup {bqMapKey(service, slo, date)}

\* A validation that looks at Service and SLO only.
RowUnsetNoDate(row) == row.Service = "" \/ row.SLO = ""

\* readBQMap, line 55: `row.Service == "" || row.SLO == "" || row.Date == ""`.
RowUnset(row) == row.Service = "" \/ row.SLO = "" \/ row.Date = <<>>

RECURSIVE readRows(_, _, _)
\* readBQMap, lines 53-61: the loop over the rows of the answer, from row i
\* on, with the map built so far; (nil, error) at the first unset field.
readRows(answer, i, result) ==
    IF i > Len(answer) THEN [result |-> result, err |-> ""]
    ELSE IF RowUnset(answer[i])
         THEN [result |-> {}, err |-> "Expected Service, SLO and Date to be set"]
    ELSE readRows(answer, i + 1,
                  Add(result, answer[i].Service, answer[i].SLO, answer[i].Date))

\* The query with a window one day short: date >= the local date of
\* daysAgo = backfillDays - 1.
QueryAnswerShort(extra) ==
    SetToSeq(QueryRows(DateOf(daysAgoMidnightTimestamp(now, cfgLoc, backfillDays - 1),
                              cfgLoc))) \o extra

\* The answer of client.Query to the query of readBQMap: the rows of the
\* table it selects, and after them the rows `extra` that the
\* BigQueryClient at hand returns besides (none with the real table).
QueryAnswer(extra) ==
    SetToSeq(QueryRows(DateOf(daysAgoMidnightTimestamp(now, cfgLoc, backfillDays),
                              cfgLoc))) \o extra

\* readBQMap, after the clients are made (google.DefaultClient,
\* NewStackdriverMetricClient): one query, every row checked and added.
ReadBQMapWith(r, extra, fail) ==
    /\ pc[r] = "readBQMap"
    /\ LET m == readRows(QueryAnswer(extra), 1, {})
       IN  IF fail # "" THEN Return(r, fail) /\ UNCHANGED existing
           ELSE IF m.err # "" THEN Return(r, m.err) /\ UNCHANGED existing
           ELSE /\ existing' = [existing EXCEPT ![r] = m.result]
                /\ pc' = [pc EXCEPT ![r] = "Services"]
                /\ UNCHANGED err
    /\ ranOn' = [ranOn EXCEPT ![r] = ranOn[r] \cup {DateOf(now, cfgLoc)}]
    /\ UNCHANGED <<shared, leaseVars, si, oi, daysAgo, start, res, rows, queried,
                   puts, outlived>>

\* readBQMap against the table alone.
ReadBQMap(r) ==
    /\ UNCHANGED fixed
    /\ \E fail \in {"", "clients", "Query"} : ReadBQMapWith(r, <<>>, fail)

\* No SLO is skipped.
SupportsEvery(slo) == TRUE

\* syncAllServices (second version) line 237: the SLO is a GoodTotalRatioSLI;
\* the first version takes every SLO as a select_slo_counts one.
Supported(slo) == slo.SLI.kind \in {"legacy", "ratio"}

RECURSIVE NextSLO(_, _)
\* The next SLO of a listing, after index o, that is not skipped
\* (0: none is left).  A skipped SLO adds no row, so the batch check after
\* it finds what the check before it left: fewer than bqBatchSize rows.
NextSLO(slos, o) ==
    IF o >= Len(slos) THEN 0
    ELSE IF Supported(slos[o + 1]) THEN o + 1
    ELSE NextSLO(slos, o + 1)

\* The day loop started at today: `for daysAgo := 0; ...`.
AdvanceFromToday(r, s, o) ==
    LET n == NextSLO(catalog[s].SLOs, o)
    IN  IF n # 0
        THEN /\ pc' = [pc EXCEPT ![r] = "dayStart"]
             /\ si' = [si EXCEPT ![r] = s]
             /\ oi' = [oi EXCEPT ![r] = n]
             /\ daysAgo' = [daysAgo EXCEPT ![r] = 0]
        ELSE IF s < Len(catalog)
        THEN /\ pc' = [pc EXCEPT ![r] = "SLOs"]
             /\ si' = [si EXCEPT ![r] = s + 1]
             /\ oi' = [oi EXCEPT ![r] = 0]
             /\ UNCHANGED daysAgo
        ELSE /\ pc' = [pc EXCEPT ![r] = "finalPut"]
             /\ UNCHANGED <<si, oi, daysAgo>>

\* Where syncAllServices goes on after SLO o of service s.
Advance(r, s, o) ==
    LET n == NextSLO(catalog[s].SLOs, o)
    IN  IF n # 0
        THEN /\ pc' = [pc EXCEPT ![r] = "dayStart"]
             /\ si' = [si EXCEPT ![r] = s]
             /\ oi' = [oi EXCEPT ![r] = n]
             /\ daysAgo' = [daysAgo EXCEPT ![r] = 1]
        ELSE IF s < Len(catalog)
        THEN /\ pc' = [pc EXCEPT ![r] = "SLOs"]
             /\ si' = [si EXCEPT ![r] = s + 1]
             /\ oi' = [oi EXCEPT ![r] = 0]
             /\ UNCHANGED daysAgo
        ELSE /\ pc' = [pc EXCEPT ![r] = "finalPut"]
             /\ UNCHANGED <<si, oi, daysAgo>>

\* sloc.Services()
Services(r) ==
    /\ UNCHANGED fixed
    /\ pc[r] = "Services"
    /\ \E fail \in BOOLEAN :
         IF fail THEN Return(r, "Services") /\ UNCHANGED <<si, oi>>
         ELSE /\ IF Len(catalog) = 0
                 THEN pc' = [pc EXCEPT ![r] = "finalPut"] /\ UNCHANGED si
                 ELSE /\ pc' = [pc EXCEPT ![r] = "SLOs"]
                      /\ si' = [si EXCEPT ![r] = 1]
              /\ UNCHANGED <<err, oi>>
    /\ UNCHANGED <<shared, leaseVars, existing, daysAgo, start, res, rows, history>>

\* sloc.SLOs(svc), and the way to the first SLO that is not skipped.
SLOs(r) ==
    /\ UNCHANGED fixed
    /\ pc[r] = "SLOs"
    /\ \E fail \in BOOLEAN :
         IF fail THEN Return(r, "SLOs") /\ UNCHANGED <<si, oi, daysAgo>>
         ELSE Advance(r, si[r], 0) /\ UNCHANGED err
    /\ res' = [res EXCEPT ![r] = <<>>]
    /\ UNCHANGED <<shared, leaseVars, existing, start, rows, history>>

\* newRecords, line 92: `start`, from the first reading of the clock.
DayStart(r) ==
    /\ UNCHANGED fixed
    /\ pc[r] = "dayStart"
    /\ start' = [start EXCEPT ![r] =
                    daysAgoMidnightTimestamp(now, cfgLoc, daysAgo[r])]
    /\ pc' = [pc EXCEPT ![r] = "dayEnd"]
    /\ ranOn' = [ranOn EXCEPT ![r] = ranOn[r] \cup {DateOf(now, cfgLoc)}]
    /\ UNCHANGED <<shared, err, leaseVars, existing, si, oi, daysAgo, res, rows,
                   queried, puts, outlived>>

\* A Check that finds nothing: every day is taken for a new one.
CheckNothing(b, service, slo, date) == FALSE

\* A Check that compares Service and SLO only.
CheckAnyDate(b, service, slo, date) ==
    \E k \in b : k.Service = service /\ k.SLO = slo

\* existing.Check
Check(b, service, slo, date) == bqMapKey(service, slo, date) \in b

\* The batch check with `>` for `>=`: a buffer of exactly bqBatchSize rows
\* is kept for later.
AfterNewRecordsLate(r, got) ==
    /\ rows' = [rows EXCEPT ![r] = rows[r] \o got]
    /\ res' = [res EXCEPT ![r] = <<>>]
    /\ IF Len(rows[r] \o got) > batchSize
       THEN pc' = [pc EXCEPT ![r] = "Put"] /\ UNCHANGED <<si, oi, daysAgo>>
       ELSE Advance(r, si[r], oi[r])

\* newRecords returns its rows to syncAllServices, which appends them and
\* compares the buffer with bqBatchSize.
AfterNewRecords(r, got) ==
    /\ rows' = [rows EXCEPT ![r] = rows[r] \o got]
    /\ res' = [res EXCEPT ![r] = <<>>]
    /\ IF Len(rows[r] \o got) >= batchSize
       THEN pc' = [pc EXCEPT ![r] = "Put"] /\ UNCHANGED <<si, oi, daysAgo>>
       ELSE Advance(r, si[r], oi[r])

\* newRecords, lines 93-113: `end` from the second reading of the clock, the
\* row, the check against the bqMap, getGoodTotal, and the loop's step.
DayEnd(r) ==
    /\ UNCHANGED fixed
    /\ pc[r] = "dayEnd"
    /\ LET svc  == catalog[si[r]]
           slo  == svc.SLOs[oi[r]]
           end  == daysAgoMidnightTimestamp(now, cfgLoc, daysAgo[r] - 1)
           date == DateOf(start[r], cfgLoc)
           key  == bqMapKey(ServiceHumanName(svc), SLOHumanName(slo), date)
           last == daysAgo[r] >= backfillDays
       IN  IF Check(existing[r], key.Service, key.SLO, key.Date)
           THEN /\ IF last THEN AfterNewRecords(r, res[r])
                   ELSE /\ daysAgo' = [daysAgo EXCEPT ![r] = daysAgo[r] + 1]
                        /\ pc' = [pc EXCEPT ![r] = "dayStart"]
                        /\ UNCHANGED <<si, oi, res, rows>>
                /\ UNCHANGED <<err, queried>>
           ELSE \E gt \in GoodTotals(slo) :
                  LET row == BQRow(key.Service, key.SLO, date, gt.Good, gt.Total,
                                   slo.Goal)
                  IN  /\ queried' = [queried EXCEPT ![r] = queried[r] \cup
                            (IF Requests(slo) THEN {key} ELSE {})]
                      /\ IF gt.err # ""
                         THEN /\ Return(r, gt.err)
                              /\ UNCHANGED <<si, oi, daysAgo, res, rows>>
                         ELSE /\ UNCHANGED err
                              /\ IF last
                                 THEN AfterNewRecords(r, res[r] \o Emitted(gt, row))
                                 ELSE /\ res' = [res EXCEPT ![r] = res[r] \o Emitted(gt, row)]
                                      /\ daysAgo' = [daysAgo EXCEPT ![r] = daysAgo[r] + 1]
                                      /\ pc' = [pc EXCEPT ![r] = "dayStart"]
                                      /\ UNCHANGED <<si, oi, rows>>
    /\ ranOn' = [ranOn EXCEPT ![r] = ranOn[r] \cup {DateOf(now, cfgLoc)}]
    /\ UNCHANGED <<shared, leaseVars, existing, start, puts, outlived>>

\* bq.Put of the whole buffer: the rows are appended to the table.
Put(r) ==
    /\ UNCHANGED fixed
    /\ pc[r] = "Put"
    /\ puts' = [puts EXCEPT ![r] = Append(puts[r], rows[r])]
    /\ \E fail \in BOOLEAN :
         IF fail
         THEN Return(r, "Put") /\ UNCHANGED <<store, rows, si, oi, daysAgo>>
         ELSE /\ store' = store (+) SeqToBag(rows[r])
              /\ rows' = [rows EXCEPT ![r] = <<>>]
              /\ Advance(r, si[r], oi[r])
              /\ UNCHANGED err
    /\ UNCHANGED <<now, label, etag, catalog, leaseVars, existing, start, res,
                   queried, ranOn, outlived>>

\* A final Put made only when rows are left: `if len(rows) > 0`.
FinalPutIfAny(r) ==
    /\ UNCHANGED fixed
    /\ pc[r] = "finalPut"
    /\ puts' = [puts EXCEPT ![r] = IF rows[r] = <<>> THEN puts[r]
                                   ELSE Append(puts[r], rows[r])]
    /\ \E fail \in BOOLEAN :
         IF fail /\ rows[r] # <<>> THEN Return(r, "Put") /\ UNCHANGED <<store, rows>>
         ELSE /\ store' = store (+) SeqToBag(rows[r])
              /\ rows' = [rows EXCEPT ![r] = <<>>]
              /\ Return(r, "")
    /\ UNCHANGED <<now, label, etag, catalog, leaseVars, existing, si, oi,
                   daysAgo, start, res, queried, ranOn, outlived>>

\* syncAllServices, line 80: the final Put, whose error is what is returned.
FinalPut(r) ==
    /\ UNCHANGED fixed
    /\ pc[r] = "finalPut"
    /\ puts' = [puts EXCEPT ![r] = Append(puts[r], rows[r])]
    /\ \E fail \in BOOLEAN :
         IF fail THEN Return(r, "Put") /\ UNCHANGED <<store, rows>>
         ELSE /\ store' = store (+) SeqToBag(rows[r])
              /\ rows' = [rows EXCEPT ![r] = <<>>]
              /\ Return(r, "")
    /\ UNCHANGED <<now, label, etag, catalog, leaseVars, existing, si, oi,
                   daysAgo, start, res, queried, ranOn, outlived>>

\* ----------------------------------------------------------- environment

\* The run is killed (the GCF runtime's timeout, a crash): nothing that is
\* deferred runs.
Kill(r) ==
    /\ UNCHANGED fixed
    /\ Live(r)
    /\ pc' = [pc EXCEPT ![r] = "killed"]
    /\ Forget(r)
    /\ UNCHANGED <<shared, err, ranOn, outlived>>

\* Time passes.
Tick ==
    /\ UNCHANGED fixed
    /\ now < StartClock + MaxTicks * TickMinutes
    /\ now' = now + TickMinutes
    /\ outlived' = (outlived \/ \E r \in Runs :
                                   MidFlight(r) /\ expiration[r] <= now + TickMinutes)
    /\ UNCHANGED <<label, etag, store, catalog, pc, err, leaseVars, syncVars,
                   queried, puts, ranOn>>

Init == InitWith(CatalogsOverlap, {bqBatchSize})

InitSeq == InitWith(Catalogs, BatchSizes)

\* A run starts when no other run is under way: the runs follow one another.
StartRunSeq(r) ==
    /\ \A q \in Runs \ {r} : ~Live(q)
    /\ StartRun(r)

\* Time passes, and no run outlives the GCF timeout: a run that has been
\* under way for KillMinutes returns or is killed before the clock moves on.
TickTimed ==
    /\ \A r \in Runs :
         Live(r) => now + TickMinutes <= (expiration[r] - LeaseMinutes) + KillMinutes
    /\ Tick

Next ==
    \/ \E r \in Runs : StartRun(r)
    \/ \E r \in Runs : ReadLabel(r)
    \/ \E r \in Runs : WriteLabel(r)
    \/ \E r \in Runs : ReadBQMap(r)
    \/ \E r \in Runs : Services(r)
    \/ \E r \in Runs : SLOs(r)
    \/ \E r \in Runs : DayStart(r)
    \/ \E r \in Runs : DayEnd(r)
    \/ \E r \in Runs : Put(r)
    \/ \E r \in Runs : FinalPut(r)
    \/ \E r \in Runs : Close(r)
    \/ \E r \in Runs : Kill(r)
    \/ Tick

\* The runs may overlap, and may outlive their leases.
Spec == Init /\ [][Next]_vars

NextSeq ==
    \/ \E r \in Runs : StartRunSeq(r)
    \/ \E r \in Runs : ReadLabel(r)
    \/ \E r \in Runs : WriteLabel(r)
    \/ \E r \in Runs : ReadBQMap(r)
    \/ \E r \in Runs : Services(r)
    \/ \E r \in Runs : SLOs(r)
    \/ \E r \in Runs : DayStart(r)
    \/ \E r \in Runs : DayEnd(r)
    \/ \E r \in Runs : Put(r)
    \/ \E r \in Runs : FinalPut(r)
    \/ \E r \in Runs : Close(r)
    \/ \E r \in Runs : Kill(r)
    \/ Tick

\* The runs follow one another: the "sequence of sync runs".
SpecSeq == InitSeq /\ [][NextSeq]_vars

NextTimed ==
    \/ \E r \in Runs : StartRun(r)
    \/ \E r \in Runs : ReadLabel(r)
    \/ \E r \in Runs : WriteLabel(r)
    \/ \E r \in Runs : ReadBQMap(r)
    \/ \E r \in Runs : Services(r)
    \/ \E r \in Runs : SLOs(r)
    \/ \E r \in Runs : DayStart(r)
    \/ \E r \in Runs : DayEnd(r)
    \/ \E r \in Runs : Put(r)
    \/ \E r \in Runs : FinalPut(r)
    \/ \E r \in Runs : Close(r)
    \/ \E r \in Runs : Kill(r)
    \/ TickTimed

\* The runs may overlap, and every run ends within KillMinutes of its start.
SpecTimed == Init /\ [][NextTimed]_vars

\* ------------------------------------------- daysAgoMidnightTimestamp alone

\* How many days before and after a day of interest the calls are made on.
DaysAround == 1

\* The time zones a Config may name that the calls are made with.
Zones == {London, LordHowe, SaoPaulo}

\* The UTC days of interest: 2015-05-01, and the days of the transitions.
DaysOfInterest ==
    {DaysFromCivil(2015, 5, 1)}
        \cup UNION {{z.tx[i].when \div MinutesPerDay : i \in 1..Len(z.tx)} : z \in Zones}

\* The instants `now` of the calls: 01:00 and 15:00 UTC, as in
\* TestDaysAgoMidnightTimestamp, on and around the days of interest.
DayInstants ==
    {(d + delta) * MinutesPerDay + m :
        d \in DaysOfInterest, delta \in (0 - DaysAround)..DaysAround,
        m \in {1 * 60, 15 * 60}}

\* The two calls made for one day: newRecords makes them with
\* k in 1..backfillDays, TestDaysAgoMidnightTimestamp with k = 0.
DayBoundaries(t, z, k) ==
    /\ arg' = [op |-> "daysAgoMidnightTimestamp", now |-> t, loc |-> z,
               daysAgo |-> k]
    /\ ret' = [start |-> daysAgoMidnightTimestamp(t, z, k),
               end   |-> daysAgoMidnightTimestamp(t, z, k - 1)]
    /\ UNCHANGED <<batchSize, shared, pc, err, leaseVars, syncVars, history>>

InitDay == InitWith(CatalogsOverlap, {bqBatchSize}) /\ label = NoLabel

NextDay ==
    \E t \in DayInstants, z \in Zones, k \in 0..backfillDays : DayBoundaries(t, z, k)

\* The day-boundary function, called on its own.
SpecDay == InitDay /\ [][NextDay]_vars

\* ------------------------------------------------ any BigQueryClient

\* How many rows a client returns besides those of the table.
MaxExtra == 2

\* A row as the query of readBQMap returns it: service, slo and date.
IndexRow(service, slo, date) == BQRow(service, slo, date, 0, 0, 0)

\* Rows a BigQueryClient may return: a row of the run's own SLO, rows that
\* differ from it in one field, and rows with a field unset (the row of
\* TestReadBQMapErrors among them).
ExtraRows ==
    {IndexRow("svc1", "slo1", <<2015, 5, 8>>),
     IndexRow("svc1", "slo2", <<2015, 5, 9>>),
     IndexRow("svc2", "slo1", <<2015, 5, 9>>),
     IndexRow("", "slo2", <<2015, 1, 1>>),
     IndexRow("svc1", "", <<2015, 5, 9>>),
     IndexRow("svc1", "slo1", <<>>)}

Extras == UNION {[1..n -> ExtraRows] : n \in 0..MaxExtra}

\* readBQMap with a client that returns rows of its own: the answer and
\* what readBQMap makes of it are kept, when the query itself succeeds.
ReadBQMapAnswered(r) ==
    /\ UNCHANGED batchSize
    /\ \E fail \in {"", "clients", "Query"}, extra \in Extras :
         /\ ReadBQMapWith(r, extra, fail)
         /\ IF fail = ""
            THEN /\ arg' = [op |-> "readBQMap", run |-> r,
                            rows |-> QueryAnswer(extra)]
                 /\ ret' = readRows(QueryAnswer(extra), 1, {})
            ELSE UNCHANGED <<arg, ret>>

NextIndex ==
    \/ \E r \in Runs : StartRunSeq(r)
    \/ \E r \in Runs : ReadLabel(r)
    \/ \E r \in Runs : WriteLabel(r)
    \/ \E r \in Runs : ReadBQMapAnswered(r)
    \/ \E r \in Runs : Services(r)
    \/ \E r \in Runs : SLOs(r)
    \/ \E r \in Runs : DayStart(r)
    \/ \E r \in Runs : DayEnd(r)
    \/ \E r \in Runs : Put(r)
    \/ \E r \in Runs : FinalPut(r)
    \/ \E r \in Runs : Close(r)
    \/ \E r \in Runs : Kill(r)
    \/ Tick

\* The runs follow one another, against a client that answers the index
\* query with the table's rows and any others.
SpecIndex == Init /\ [][NextIndex]_vars

\* ------------------------------------------------- indicator shapes

\* Between two runs the SLOs of the project are edited.
Reconfigure ==
    /\ UNCHANGED fixed
    /\ \A r \in Runs : ~Live(r)
    /\ \E r \in Runs : pc[r] = "done"
    /\ \E c \in CatalogsShapes : c # catalog /\ catalog' = c
    /\ UNCHANGED <<now, label, etag, store, pc, err, leaseVars, syncVars, history>>

InitShapes == InitWith(CatalogsShapes, {bqBatchSize})

NextShapes ==
    \/ \E r \in Runs : StartRunSeq(r)
    \/ \E r \in Runs : ReadLabel(r)
    \/ \E r \in Runs : WriteLabel(r)
    \/ \E r \in Runs : ReadBQMap(r)
    \/ \E r \in Runs : Services(r)
    \/ \E r \in Runs : SLOs(r)
    \/ \E r \in Runs : DayStart(r)
    \/ \E r \in Runs : DayEnd(r)
    \/ \E r \in Runs : Put(r)
    \/ \E r \in Runs : FinalPut(r)
    \/ \E r \in Runs : Close(r)
    \/ \E r \in Runs : Kill(r)
    \/ Reconfigure
    \/ Tick

\* The runs follow one another, over SLOs of every indicator shape, which
\* may be edited between two runs.
SpecShapes == InitShapes /\ [][NextShapes]_vars

\* ------------------------------------- getGoodTotal and getCounter alone

\* The greatest INT64 point of the answers.
MaxCount == 3

\* The DOUBLE points of the answers, in tenths: 0, 0.6, 1, 1.5, 11 and 100.
DoublePoints == {0, 6, 10, 15, 110, 1000}

\* The series of an answer to select_slo_counts: any label, DOUBLE or
\* INT64, no point, one, or two.
LegacySeries ==
    {Series(l, t, pts) :
        l \in {"good", "bad", ""}, t \in {"DOUBLE", "INT64"},
        pts \in {<<>>, <<6>>, <<15>>, <<6, 15>>}}
      \cup {Series("good", "DOUBLE", <<1000>>), Series("bad", "DOUBLE", <<110>>)}

\* The answers to select_slo_counts: an error, no series, one or two
\* series, and three.
LegacyAnswers ==
    {[err |-> TRUE, series |-> <<>>]}
      \cup {[err |-> FALSE, series |-> ss] :
              ss \in UNION {[1..n -> LegacySeries] : n \in 0..2}}
      \cup {[err |-> FALSE,
             series |-> << Series("good", "DOUBLE", <<6>>),
                           Series("bad", "DOUBLE", <<6>>),
                           Series("good", "DOUBLE", <<6>>) >>]}

\* The row of the day under evaluation, before Good and Total are set.
DayRow(gt) == BQRow("svc1", "slo1", <<2015, 5, 9>>, gt.Good, gt.Total, 990)

\* getGoodTotal (select_slo_counts form) and the append of newRecords.
EvalLegacy(resp) ==
    /\ arg' = [op |-> "getGoodTotal", form |-> "legacy", resp |-> resp]
    /\ ret' = [gt   |-> getGoodTotal(resp),
               rows |-> Emitted(getGoodTotal(resp), DayRow(getGoodTotal(resp)))]
    /\ UNCHANGED <<batchSize, shared, pc, err, leaseVars, syncVars, history>>

\* The answers to the filter of one counter: an error, no series, one
\* series of no, one or two points and of any value type, or two series.
CounterAnswers ==
    {[err |-> TRUE, series |-> <<>>], [err |-> FALSE, series |-> <<>>]}
      \cup {[err |-> FALSE, series |-> <<Series("", t, pts)>>] :
              t \in {"DOUBLE", "INT64", "BOOL"},
              pts \in {<<>>, <<6>>, <<15>>, <<6, 15>>}}
      \cup {[err |-> FALSE,
             series |-> <<Series("", "DOUBLE", <<6>>), Series("", "DOUBLE", <<6>>)>>]}

\* getCounter
EvalCounter(resp) ==
    /\ arg' = [op |-> "getCounter", resp |-> resp]
    /\ ret' = getCounter(resp)
    /\ UNCHANGED <<batchSize, shared, pc, err, leaseVars, syncVars, history>>

\* The answer of a backend that holds the count v under value type t; a
\* count of 0 may come as no series at all.
CountAnswers(t, v) ==
    {[err |-> FALSE, series |-> <<Series("", t, <<v>>)>>]}
      \cup (IF v = 0 THEN {[err |-> FALSE, series |-> <<>>]} ELSE {})

\* The GoodTotalRatioSLIs: every choice of the three filters.
SLIs ==
    [kind : {"ratio"}, Good : {"", "f_good"}, Bad : {"", "f_bad"},
     Total : {"", "f_total"}]

\* getGoodTotal (GoodTotalRatioSLI form) against a backend that holds
\* good, bad and good + bad events under the three filters.
EvalRatio(sli, t, good, bad) ==
    \E ag \in CountAnswers(t, good), ab \in CountAnswers(t, bad),
       at \in CountAnswers(t, good + bad) :
        LET answers == [f \in Filters |->
                           CASE f = "f_good" -> ag [] f = "f_bad" -> ab [] OTHER -> at]
        IN  /\ arg' = [op |-> "getGoodTotal", form |-> "ratio", sli |-> sli,
                       valueType |-> t, good |-> good, bad |-> bad,
                       answers |-> answers]
            /\ ret' = getGoodTotalRatio(sli, answers)
            /\ UNCHANGED <<batchSize, shared, pc, err, leaseVars, syncVars, history>>

InitMetric == InitWith(CatalogsOverlap, {bqBatchSize}) /\ label = NoLabel

NextMetric ==
    \/ \E resp \in LegacyAnswers : EvalLegacy(resp)
    \/ \E resp \in CounterAnswers : EvalCounter(resp)
    \/ \E sli \in SLIs, good \in DoublePoints, bad \in DoublePoints :
           EvalRatio(sli, "DOUBLE", good, bad)
    \/ \E sli \in SLIs, good \in 0..MaxCount, bad \in 0..MaxCount :
           EvalRatio(sli, "INT64", good, bad)

\* The evaluation of an indicator, called on its own.
SpecMetric == InitMetric /\ [][NextMetric]_vars

\* --------------------------------------------------- days without events

InitQuiet == InitWith(CatalogsQuiet, {bqBatchSize}) /\ label = NoLabel

\* The runs follow one another, over SLOs for which the backend may have no
\* time series.
SpecQuiet == InitQuiet /\ [][NextSeq]_vars

\* ------------------------------------ getGoodTotal on any counter values

\* getGoodTotal (GoodTotalRatioSLI form) and the append of newRecords,
\* against a backend that answers the three filters with any INT64 counts,
\* whether or not they add up.
EvalCounts(sli, good, bad, total) ==
    LET answers == [f \in Filters |->
                       [err |-> FALSE,
                        series |-> << Series("", "INT64",
                                             << CASE f = "f_good" -> good
                                                  [] f = "f_bad" -> bad
                                                  [] OTHER -> total >>) >>]]
        gt == getGoodTotalRatio(sli, answers)
    IN  /\ arg' = [op |-> "getGoodTotal", form |-> "ratio", sli |-> sli,
                   good |-> good, bad |-> bad, total |-> total]
        /\ ret' = [gt |-> gt, rows |-> Emitted(gt, DayRow(gt))]
        /\ UNCHANGED <<batchSize, shared, pc, err, leaseVars, syncVars, history>>

NextCounts ==
    \/ \E resp \in LegacyAnswers : EvalLegacy(resp)
    \/ \E sli \in SLIs, good \in 0..MaxCount, bad \in 0..MaxCount,
          total \in 0..MaxCount : EvalCounts(sli, good, bad, total)

\* The evaluation of an indicator of either form, on any counts.
SpecCounts == InitMetric /\ [][NextCounts]_vars

\* ------------------------------------------- the counters getGoodTotal asks

\* The answers to the filter of one counter: an error, no series, or one
\* series with one INT64 point.
AskedAnswers ==
    {[err |-> TRUE, series |-> <<>>], [err |-> FALSE, series |-> <<>>]}
      \cup {[err |-> FALSE, series |-> <<Series("", "INT64", <<v>>)>>] :
              v \in 0..MaxCount}

\* getGoodTotal (GoodTotalRatioSLI form) with the calls of getCounter it
\* makes, against a backend that answers each filter on its own.
EvalAsked(sli, answers) ==
    /\ arg' = [op |-> "getGoodTotal", form |-> "ratio", sli |-> sli,
               answers |-> answers]
    /\ ret' = [gt |-> getGoodTotalRatio(sli, answers),
               asked |-> CountersAsked(sli, answers)]
    /\ UNCHANGED <<batchSize, shared, pc, err, leaseVars, syncVars, history>>

NextAsked == \E sli \in SLIs, answers \in [Filters -> AskedAnswers] : EvalAsked(sli, answers)

\* The evaluation of a GoodTotalRatioSLI, with its calls of getCounter.
SpecAsked == InitMetric /\ [][NextAsked]_vars

\* --------------------------------------------------------------- claims

\* The keys a run has passed to Put or holds in its buffers.
KeysWritten(r) ==
    UNION {{KeyOf(puts[r][i][j]) : j \in 1..Len(puts[r][i])} : i \in 1..Len(puts[r])}

KeysBuffered(r) ==
    {KeyOf(rows[r][i]) : i \in 1..Len(rows[r])}
        \cup {KeyOf(res[r][i]) : i \in 1..Len(res[r])}

\* C1: after any sequence of sync runs, each run building its bqMap from
\* the table at its start and each possibly aborted at any point, the table
\* never holds two rows with the same (Service, SLO, Date).
C1_NoDuplicateKeys ==
    \A a \in BagToSet(store) :
        /\ CopiesIn(a, store) = 1
        /\ \A b \in BagToSet(store) : KeyOf(a) = KeyOf(b) => a = b

\* C2: in a run, no ListTimeSeries request is issued for a key that is in
\* the bqMap the run built at its start, and no row with such a key is
\* passed to Put (or waits in the run's buffers to be).
C2_IndexedKeysSkipped ==
    \A r \in Runs :
        \A k \in existing[r] :
            k \notin queried[r] /\ k \notin KeysWritten(r) /\ k \notin KeysBuffered(r)

\* C2, reached: a run that found keys in the table has gone through the
\* day loop, querying for the days that were missing, up to its final Put.
C2_Witness ==
    \E r \in Runs :
        pc[r] = "finalPut" /\ existing[r] # {} /\ queried[r] # {}

\* C3, as stated: in any interleaving of any number of runs, of any
\* duration (runs that outlive their lease too), at most one run is between
\* a successful newBqLease and its Close.
C3_AtMostOneMidFlight ==
    \A r, q \in Runs : MidFlight(r) /\ MidFlight(q) => r = q

\* C3, amended: as long as no run has been between newBqLease and Close at
\* or after the expiration it wrote, at most one run is between a successful
\* newBqLease and its Close.
C3_AtMostOneWithinLease == ~outlived => C3_AtMostOneMidFlight

\* C3, reached: a run holds the lease, within its time, and another run's
\* newBqLease has been refused on finding it.
C3_Witness ==
    /\ ~outlived
    /\ \E r, q \in Runs :
         /\ MidFlight(r)
         /\ now < expiration[r]
         /\ pc[q] = "done"
         /\ err[q] = "existing lease is still valid"

\* A run in syncAllServices (readBQMap, the listings, the metric queries,
\* the Puts).
InSync(r) ==
    pc[r] \in {"readBQMap", "Services", "SLOs", "dayStart", "dayEnd", "Put",
               "finalPut"}

\* C4: when every run returns or is killed within KillMinutes of its start
\* and asks for a lease of LeaseMinutes from its start, at most one run is
\* in syncAllServices at any time.
C4_OneSyncAtATime ==
    \A r, q \in Runs : InSync(r) /\ InSync(q) => r = q

\* C4, reached: a run is in syncAllServices some minutes after its start,
\* and a run that started later has found its lease and returned.
C4_Witness ==
    \E r, q \in Runs :
        /\ InSync(r)
        /\ now > expiration[r] - LeaseMinutes
        /\ pc[q] = "done"
        /\ err[q] = "existing lease is still valid"
        /\ ranOn[q] = {}

\* C5: once a run has returned nil, a later run with the same catalog and
\* metric values on the same local date issues no ListTimeSeries request and
\* passes no row to Put; when it returns nil, its one Put is the final one,
\* of an empty batch.
C5_SecondRunWritesNothing ==
    \A r, q \in Runs :
        ( /\ pc[r] = "done" /\ err[r] = ""
          /\ MidFlight(q)
          /\ Cardinality(ranOn[r] \cup ranOn[q]) <= 1 )
        => /\ queried[q] = {}
           /\ KeysWritten(q) = {}
           /\ KeysBuffered(q) = {}
           /\ \A i \in 1..Len(puts[q]) : puts[q][i] = <<>>
           /\ (pc[q] = "Close" /\ err[q] = "" => puts[q] = << <<>> >>)

\* C5, reached: after a run that wrote rows and returned nil, a second run
\* on the same local date has gone through the whole catalog and returned
\* from its final Put.
C5_Witness ==
    \E r, q \in Runs :
        /\ pc[r] = "done" /\ err[r] = ""
        /\ pc[q] = "Close" /\ err[q] = ""
        /\ ranOn[r] = ranOn[q] /\ Cardinality(ranOn[r]) = 1
        /\ existing[q] # {}
        /\ puts[q] = << <<>> >>

\* The label holds a decimal timestamp later than the clock.
LabelInFuture ==
    label # NoLabel /\ ParseInt(label).ok /\ ParseInt(label).val > Unix(now)

\* The label is absent or holds a decimal timestamp not later than the clock.
LabelAbsentOrPast ==
    label = NoLabel \/ (ParseInt(label).ok /\ ParseInt(label).val <= Unix(now))

\* Run r takes the step of newBqLease that reads the label.
ReadStep(r) == pc[r] = "readLabel" /\ pc'[r] \notin {"readLabel", "killed"}

\* Run r takes the step of newBqLease that writes the label.
WriteStep(r) == pc[r] = "writeLabel" /\ pc'[r] \notin {"writeLabel", "killed"}

\* C6: newBqLease on a label that holds a timestamp later than the clock
\* returns the "existing lease is still valid" error (or the error of the
\* read itself) and does not get to the write: label and etag stay.
C6_HeldLeaseRefused ==
    [][\A r \in Runs :
         (ReadStep(r) /\ LabelInFuture)
         => /\ pc'[r] = "done"
            /\ err'[r] \in {"existing lease is still valid",
                             "ReadDatasetMetadataLabel"}
            /\ label' = label
            /\ etag' = etag]_vars

\* C6, reached: a run has been refused by a lease that another run, still
\* mid-flight, holds.
C6_Witness ==
    \E r, q \in Runs :
        /\ pc[r] = "done"
        /\ err[r] = "existing lease is still valid"
        /\ MidFlight(q)
        /\ label = FormatInt(Unix(expiration[q]))
        /\ LabelInFuture

\* C7: newBqLease on a label that is absent or holds a past timestamp goes
\* on to the write (unless the read itself fails), under the etag that its
\* read returned; the write, when it is taken, stores the expiration asked
\* for as a decimal Unix timestamp, and the run holds the lease.
C7_FreeLeaseAcquired ==
    [][\A r \in Runs :
         /\ (ReadStep(r) /\ LabelAbsentOrPast)
            => \/ pc'[r] = "writeLabel" /\ readEtag'[r] = etag /\ err'[r] = ""
               \/ pc'[r] = "done" /\ err'[r] = "ReadDatasetMetadataLabel"
         /\ (WriteStep(r) /\ readEtag[r] = etag)
            => \/ /\ pc'[r] = "readBQMap"
                  /\ label' = FormatInt(Unix(expiration[r]))
                  /\ ParseInt(label') = [ok |-> TRUE, val |-> Unix(expiration[r])]
                  /\ etag' # etag
                  /\ err'[r] = ""
               \/ /\ pc'[r] = "done"
                  /\ err'[r] = "Could not update BQ lease"
                  /\ label' = label]_vars

\* C7, reached: a run holds the lease it wrote, the second write of the
\* label, LeaseMinutes or more after the first, which a run that was killed
\* made and never cleared.
C7_Witness ==
    \E r, q \in Runs :
        /\ pc[q] = "killed"
        /\ pc[r] = "readBQMap"
        /\ label = FormatInt(Unix(expiration[r]))
        /\ expiration[r] >= StartClock + 2 * LeaseMinutes
        /\ etag = 3

\* C8: when two runs have both read the label before either writes, the
\* first write to be accepted changes the etag away from the one the other
\* run read, the etag never comes back to it, and the other run's write,
\* under its stale etag, is refused: that run returns "Could not update BQ
\* lease" without having touched the label and without holding the lease.
C8_StaleWriteRejected ==
    [][\A r \in Runs :
         /\ etag' >= etag
         /\ (pc[r] = "writeLabel" => readEtag[r] <= etag)
         /\ (WriteStep(r) /\ readEtag[r] # etag)
            => /\ pc'[r] = "done"
               /\ err'[r] = "Could not update BQ lease"
               /\ label' = label
               /\ etag' = etag
         /\ \A q \in Runs \ {r} :
              (WriteStep(r) /\ pc'[r] = "readBQMap" /\ pc[q] = "writeLabel")
              => readEtag[q] # etag']_vars

\* C8, reached: two runs read the label under the same etag; one of them
\* has written and holds the lease, and the other is about to write.
C8_Witness ==
    \E r, q \in Runs :
        /\ r # q
        /\ MidFlight(r)
        /\ label = FormatInt(Unix(expiration[r]))
        /\ pc[q] = "writeLabel"
        /\ readEtag[q] = readEtag[r]
        /\ readEtag[q] # etag

\* C9: a run that holds the lease returns only through Close: whatever
\* syncAllServices returned, nil or an error, the write that clears the
\* label is issued before SyncSloPerformance returns.
C9_ReleaseBeforeReturn ==
    [][\A r \in Runs :
         (MidFlight(r) /\ pc'[r] = "done")
         => /\ pc[r] = "Close"
            /\ \/ label' = NoLabel /\ etag' # etag
               \/ label' = label /\ etag' = etag]_vars

\* C9, reached: a run whose sync failed has cleared its lease and returned
\* the error.
C9_Witness ==
    \E r \in Runs :
        /\ pc[r] = "done"
        /\ err[r] \in {"Services", "SLOs", "ListTimeSeries", "Put", "Query"}
        /\ label = NoLabel
        /\ etag > 1

\* C10: Close deletes the label under no etag: whatever the label and the
\* etag are when a run gets to its Close, the label of another run that
\* took the lease after this run's had expired too, the write that clears
\* the label is accepted, and a Close changes the label to nothing else.
C10_ReleaseUnconditional ==
    \A r \in Runs :
        pc[r] = "Close"
        => /\ ENABLED (Close(r) /\ label' = NoLabel /\ etag' # etag)
           /\ ~ ENABLED (Close(r) /\ label' \notin {NoLabel, label})

\* C10, reached: a run is at its Close while the label holds the lease
\* that another run, mid-flight, wrote after this run's lease had expired.
C10_Witness ==
    \E r, q \in Runs :
        /\ pc[r] = "Close"
        /\ MidFlight(q) /\ q # r
        /\ label = FormatInt(Unix(expiration[q]))
        /\ expiration[r] <= now
        /\ readEtag[r] # etag

\* The label holds a lease that nobody is left to clear: no run is between
\* newBqLease and Close (the holder was killed, or its Close failed).
LeaseLeftBehind ==
    /\ label # NoLabel
    /\ ParseInt(label).ok
    /\ \A q \in Runs : ~MidFlight(q)

\* C11: a lease that a crashed run left behind stops blocking once the
\* clock has passed its timestamp: a newBqLease that reads the label then
\* can go on to its write, and that write, when nobody has changed the
\* metadata in between, can make the run the holder with a lease later than
\* the clock.  No timestamp in the label lies more than LeaseMinutes ahead
\* of the clock, so an advancing clock passes it; nobody has to clear the
\* label by hand.
C11_ExpiredLeaseGivesWay ==
    /\ (label # NoLabel /\ ParseInt(label).ok)
       => ParseInt(label).val <= Unix(now + LeaseMinutes)
    /\ \A r \in Runs :
        /\ (pc[r] = "readLabel" /\ LeaseLeftBehind /\ ParseInt(label).val <= Unix(now))
           => /\ LeaseCheck(label, now) = ""
              /\ ENABLED (ReadLabel(r) /\ pc'[r] = "writeLabel")
        /\ (pc[r] = "writeLabel" /\ readEtag[r] = etag)
           => ENABLED (/\ WriteLabel(r)
                       /\ pc'[r] = "readBQMap"
                       /\ label' = FormatInt(Unix(expiration[r])))

\* C11, reached: a run was killed holding the lease, the clock has passed
\* the lease's timestamp, and a later run has read the label and is at its
\* write, the metadata unchanged since.
C11_Witness ==
    \E r, q \in Runs :
        /\ pc[q] = "killed"
        /\ LeaseLeftBehind
        /\ ParseInt(label).val <= Unix(now)
        /\ pc[r] = "writeLabel"
        /\ readEtag[r] = etag

\* The errors a collaborator call made at a place of the sync can return.
ErrorsAt(place) ==
    CASE place = "readBQMap" ->
             {"clients", "Query", "Expected Service, SLO and Date to be set"}
      [] place = "Services" -> {"Services"}
      [] place = "SLOs" -> {"SLOs"}
      [] place = "dayEnd" -> {"ListTimeSeries", "series", "points", "valueType",
                              "eventType"}
      [] place \in {"Put", "finalPut"} -> {"Put"}
      [] OTHER -> {}

\* C12: when the index query, a listing, a metric query or a Put fails, the
\* sync returns that call's error and makes no further call: a run that is
\* still in the sync has met no error; the sync is left only with the error
\* of the call it was at (or with nil, from a final Put that wrote the
\* buffer); a failed call leaves the table as it was; and on the way out
\* the error stays, the table stays, and nothing is queried or put again.
C12_ErrorAborts ==
    [][\A r \in Runs :
         /\ InSync(r) => err[r] = ""
         /\ (InSync(r) /\ pc'[r] = "Close")
            => /\ \/ err'[r] \in ErrorsAt(pc[r])
                  \/ /\ pc[r] = "finalPut"
                     /\ err'[r] = ""
                     /\ store' = store (+) SeqToBag(rows[r])
               /\ err'[r] # "" => store' = store
               /\ Len(puts'[r]) <= Len(puts[r]) + 1
         /\ (InSync(r) /\ InSync(r)') => err'[r] = ""
         /\ pc[r] = "Close"
            => /\ pc'[r] \in {"Close", "done", "killed"}
               /\ err'[r] = err[r]
               /\ store' = store
               /\ pc'[r] = "Close" => puts'[r] = puts[r] /\ queried'[r] = queried[r]
      ]_vars

\* C12, reached: a metric query failed after a batch had been put, and the
\* run is on its way out with that error.
C12_Witness ==
    \E r \in Runs :
        /\ pc[r] = "Close"
        /\ err[r] = "ListTimeSeries"
        /\ puts[r] # <<>>
        /\ store # EmptyBag

\* The civil date n days before date d.
DaysBefore(d, n) == CivilFromDays(DaysFromCivil(d[1], d[2], d[3]) - n)

\* The (service, SLO, day) triples a run on local date today has to write
\* rows for, given its index: every supported SLO, every backfill day whose
\* key is not in the index.
Wanted(index, today) ==
    {t \in UNION {{s} \X (1..Len(catalog[s].SLOs)) \X (1..backfillDays) :
                      s \in 1..Len(catalog)} :
        /\ Supported(catalog[t[1]].SLOs[t[2]])
        /\ bqMapKey(ServiceHumanName(catalog[t[1]]),
                    SLOHumanName(catalog[t[1]].SLOs[t[2]]),
                    DaysBefore(today, t[3])) \notin index}

\* The row wanted for a triple: the counts are those of the one answer
\* ListTimeSeries gives, 100 good events of 111.
WantedRow(t, today) ==
    BQRow(ServiceHumanName(catalog[t[1]]),
          SLOHumanName(catalog[t[1]].SLOs[t[2]]),
          DaysBefore(today, t[3]), 100, 111, catalog[t[1]].SLOs[t[2]].Goal)

\* The wanted rows as a bag: one row for each triple.
WantedBag(index, today) ==
    LET ts == Wanted(index, today)
        rs == {WantedRow(t, today) : t \in ts}
    IN  [row \in rs |-> Cardinality({t \in ts : WantedRow(t, today) = row})]

RECURSIVE PutBag(_)
\* The rows of all the batches of a sequence of Puts, as a bag.
PutBag(batches) ==
    IF batches = <<>> THEN EmptyBag
    ELSE SeqToBag(Head(batches)) (+) PutBag(Tail(batches))

\* C13, as stated: when a run has completed without error, the rows it
\* passed to Put are, taken together, exactly one row for each (service,
\* supported SLO, backfill day) whose key is not in its index, with the
\* SLO's goal and the evaluated counts; none is missing, none is put twice.
C13_ExactlyTheMissingRows ==
    \A r \in Runs :
        (pc[r] = "Close" /\ err[r] = "")
        => \E today \in ranOn[r] :
               PutBag(puts[r]) = WantedBag(existing[r], today)

\* The number of rows a run has passed to Put.
RowsPut(r) == BagCardinality(PutBag(puts[r]))

\* C14, as stated: with batch size 1, a run that produces n new rows calls
\* Put n + 1 times: once for each new row, with a batch of that one row, and
\* a last time with an empty batch.
C14_OnePutPerRow ==
    \A r \in Runs :
        (batchSize = 1 /\ pc[r] = "Close" /\ err[r] = "")
        => /\ Len(puts[r]) = RowsPut(r) + 1
           /\ \A i \in 1..(Len(puts[r]) - 1) : Len(puts[r][i]) = 1
           /\ puts[r][Len(puts[r])] = <<>>

\* C14, amended: with batch size 1, Put is called once after each SLO for
\* which newRecords returned rows, with a batch of all that SLO's new rows
\* (one to backfillDays of them), and a last time with an empty batch: the
\* calls are n + 1 only when no SLO has more than one new day.
C14_OnePutPerSLO ==
    \A r \in Runs :
        /\ (batchSize = 1 /\ InSync(r))
           => /\ \A i \in 1..Len(puts[r]) :
                    /\ Len(puts[r][i]) \in 1..backfillDays
                    /\ \A j \in 1..Len(puts[r][i]) :
                         /\ puts[r][i][j].Service = puts[r][i][1].Service
                         /\ puts[r][i][j].SLO = puts[r][i][1].SLO
              /\ pc[r] # "Put" => rows[r] = <<>>
        /\ (batchSize = 1 /\ pc[r] = "Close" /\ err[r] = "")
           => /\ puts[r][Len(puts[r])] = <<>>
              /\ \A i \in 1..(Len(puts[r]) - 1) : puts[r][i] # <<>>
              /\ Len(puts[r]) <= RowsPut(r) + 1
              /\ (\A i \in 1..Len(puts[r]) : Len(puts[r][i]) <= 1)
                 => Len(puts[r]) = RowsPut(r) + 1

\* C14, reached: with batch size 1, a run found one day of each of two SLOs
\* in its index and has returned nil after three Puts: a row, a row, and
\* the empty batch, as in TestSyncAllServices.
C14_Witness ==
    \E r \in Runs :
        /\ batchSize = 1
        /\ pc[r] = "Close" /\ err[r] = ""
        /\ existing[r] # {}
        /\ Len(puts[r]) = 3
        /\ Len(puts[r][1]) = 1 /\ Len(puts[r][2]) = 1 /\ puts[r][3] = <<>>

\* No service and no SLO is left for run r to go to.
EnumerationDone(r) ==
    \/ Len(catalog) = 0
    \/ /\ si[r] = Len(catalog)
       /\ NextSLO(catalog[si[r]].SLOs, oi[r]) = 0

\* Run r takes a step that stays in the sync and leaves the place it is at.
MovesOn(r) == InSync(r) /\ InSync(r)' /\ pc'[r] # pc[r]

\* C15: a run that gets through the listings and the SLOs without error
\* makes one more Put, of whatever the buffer holds, an empty buffer too
\* (no service, no SLO, no new row), and no Put after it: the final Put is
\* reached exactly when nothing is left to enumerate, it is one call, nil is
\* returned only through it, and no call follows it.
C15_FinalPutAlways ==
    [][\A r \in Runs :
         /\ (MovesOn(r) /\ pc'[r] = "finalPut") => EnumerationDone(r)
         /\ (MovesOn(r) /\ pc[r] = "Services" /\ Len(catalog) = 0)
            => pc'[r] = "finalPut"
         /\ (MovesOn(r) /\ pc[r] \in {"SLOs", "Put"} /\ EnumerationDone(r))
            => pc'[r] = "finalPut"
         /\ (MovesOn(r) /\ pc[r] = "dayEnd" /\ EnumerationDone(r)
               /\ daysAgo[r] >= backfillDays /\ pc'[r] # "Put")
            => pc'[r] = "finalPut"
         /\ (pc[r] = "finalPut" /\ pc'[r] # pc[r] /\ pc'[r] # "killed")
            => /\ pc'[r] = "Close"
               /\ puts'[r] = Append(puts[r], rows[r])
               /\ err'[r] \in {"", "Put"}
         /\ (InSync(r) /\ pc'[r] = "Close" /\ err'[r] = "")
            => pc[r] = "finalPut"
         /\ (pc[r] = "Close" /\ pc'[r] = "Close") => puts'[r] = puts[r]
      ]_vars

\* C15, reached: in a project without services a run has made its one Put,
\* of an empty batch, and returned nil.
C15_Witness ==
    \E r \in Runs :
        /\ catalog = CatalogEmpty
        /\ pc[r] = "Close" /\ err[r] = ""
        /\ puts[r] = << <<>> >>

\* The errors with which a run leaves the sync.
SyncErrors ==
    UNION {ErrorsAt(place) : place \in {"readBQMap", "Services", "SLOs", "dayEnd",
                                        "Put", "finalPut"}}

\* Every key of the table is the key of one row.
EachKeyOnce ==
    \A a \in BagToSet(store) :
        /\ CopiesIn(a, store) = 1
        /\ \A b \in BagToSet(store) : KeyOf(a) = KeyOf(b) => a = b

\* C16, as stated: a run that aborts leaves the batches it had put in the
\* table and its buffer unwritten; when a run has aborted after putting
\* batches and a following run, on the same local date, has found them and
\* returned nil, the table holds exactly the rows one successful run on an
\* empty table would have written, each key once.
C16_AbortThenRerun ==
    \A r, q \in Runs :
        ( /\ pc[r] = "done" /\ err[r] \in SyncErrors
          /\ pc[q] = "Close" /\ err[q] = ""
          /\ existing[q] # {}
          /\ Cardinality(ranOn[r] \cup ranOn[q]) = 1 )
        => /\ \A today \in ranOn[q] : store = WantedBag({}, today)
           /\ EachKeyOnce

\* The first instant at which the wall clock of loc shows the calendar date
\* `date`: a midnight under one of the zone's offsets, or a transition.
LocalDayStart(date, loc) ==
    LET wall   == DaysFromCivil(date[1], date[2], date[3]) * MinutesPerDay
        n      == Len(loc.tx)
        cands  == {wall - loc.first} \cup {wall - loc.tx[i].off : i \in 1..n}
                      \cup {loc.tx[i].when : i \in 1..n}
        firsts == {t \in cands : DateOf(t, loc) = date /\ DateOf(t - 1, loc) # date}
    IN  CHOOSE t \in firsts : \A u \in firsts : t <= u

\* Date a is a calendar date before date b.
DateBefore(a, b) == a # b /\ DateGeq(b, a)

\* The dates of the rows run r has passed to Put.
DatesWritten(r) == {k.Date : k \in KeysWritten(r)}

\* C17: every row a run emits, and every key it queries the metrics for,
\* has a Date strictly before the current local date; the day loop of an
\* SLO starts at daysAgo = 1, goes up by one, and is left for the next SLO
\* only after daysAgo = backfillDays, so daysAgo = 0 is never visited; and
\* the `end` of a query interval is never after the first instant of the
\* current local date.
C17_TodayNeverBackfilled ==
    /\ [](\A r \in Runs :
            LET today == DateOf(now, cfgLoc)
            IN  /\ \A k \in KeysWritten(r) \cup KeysBuffered(r) \cup queried[r] :
                       DateBefore(k.Date, today)
                /\ pc[r] \in {"dayStart", "dayEnd"}
                   => daysAgo[r] \in 1..backfillDays
                /\ pc[r] = "dayEnd"
                   => daysAgoMidnightTimestamp(now, cfgLoc, daysAgo[r] - 1)
                          <= LocalDayStart(today, cfgLoc))
    /\ [][\A r \in Runs :
            /\ (pc[r] \notin {"dayStart", "dayEnd"} /\ pc'[r] = "dayStart")
               => daysAgo'[r] = 1
            /\ (pc[r] = "dayEnd" /\ pc'[r] = "dayStart")
               => \/ /\ <<si'[r], oi'[r]>> = <<si[r], oi[r]>>
                     /\ daysAgo'[r] = daysAgo[r] + 1
                  \/ /\ <<si'[r], oi'[r]>> # <<si[r], oi[r]>>
                     /\ daysAgo[r] = backfillDays
                     /\ daysAgo'[r] = 1
            /\ (pc[r] = "dayEnd" /\ pc'[r] \notin {"dayEnd", "dayStart", "Close",
                                                   "killed"})
               => daysAgo[r] = backfillDays
            /\ pc[r] = "dayStart" => pc'[r] \in {"dayStart", "dayEnd", "killed"}
       ]_vars

\* C17, reached: a run has returned nil after putting a row for each of the
\* backfillDays days before today, none of them today's.
C17_Witness ==
    \E r \in Runs :
        /\ pc[r] = "Close" /\ err[r] = ""
        /\ Cardinality(DatesWritten(r)) = backfillDays
        /\ DateOf(now, cfgLoc) \notin DatesWritten(r)

\* The day after calendar date d.
DayAfter(d) == DaysBefore(d, 0 - 1)

\* The elapsed minutes of calendar date d in loc: from its first instant
\* to the first instant of the next date.
DayLength(d, loc) == LocalDayStart(DayAfter(d), loc) - LocalDayStart(d, loc)

\* The calendar date k days before the local date of instant t.
DayAgo(t, loc, k) == DaysBefore(DateOf(t, loc), k)

\* C18, as stated: the instants daysAgoMidnightTimestamp gives for
\* daysAgo = k and daysAgo = k - 1 are the elapsed length of that local
\* calendar day apart: 24h on an ordinary day, 23h on a spring-forward day,
\* 25h on a fall-back day, 23h30m on the transition day of Lord Howe.
C18_DayLength ==
    arg # NoCall =>
        LET d == DayAgo(arg.now, arg.loc, arg.daysAgo)
        IN  /\ ret.end - ret.start = DayLength(d, arg.loc)
            /\ DayLength(<<2015, 5, 1>>, London) = 24 * 60
            /\ DayLength(<<2015, 3, 29>>, London) = 23 * 60
            /\ DayLength(<<2015, 10, 25>>, London) = 25 * 60
            /\ DayLength(<<2015, 10, 4>>, LordHowe) = 23 * 60 + 30
            /\ DayLength(<<2015, 10, 18>>, SaoPaulo) = 23 * 60

\* The day lengths of London and of Lord Howe Island are the elapsed ones.
DayLengthOutsideSaoPaulo ==
    (arg # NoCall /\ arg.loc # SaoPaulo) =>
        ret.end - ret.start = DayLength(DayAgo(arg.now, arg.loc, arg.daysAgo), arg.loc)

\* The error of readBQMap for a row with a field unset.
ValidationError == "Expected Service, SLO and Date to be set"

\* Run r has just come back from readBQMap, whose query had succeeded, in
\* this step: the answer is arg'.rows.
BuildReturns(r) ==
    /\ pc[r] = "readBQMap"
    /\ pc'[r] \notin {"readBQMap", "killed"}
    /\ err'[r] \notin {"clients", "Query"}

\* Some row of the answer has an empty Service, SLO or Date.
SomeFieldEmpty(answer) ==
    \E i \in 1..Len(answer) :
        answer[i].Service = "" \/ answer[i].SLO = "" \/ answer[i].Date = <<>>

\* C19: readBQMap returns the validation error and no map whenever a row
\* of the answer has an empty Service, SLO or Date (and builds the map
\* otherwise); the run then goes straight to its deferred Close: it has
\* made no listing, no metric query and no Put, and makes none.
C19_EmptyFieldFailsBuild ==
    /\ [][\A r \in Runs :
            /\ BuildReturns(r) =>
                 IF SomeFieldEmpty(arg'.rows)
                 THEN /\ ret' = [result |-> {}, err |-> ValidationError]
                      /\ pc'[r] = "Close" /\ err'[r] = ValidationError
                      /\ existing'[r] = {}
                      /\ store' = store
                 ELSE /\ ret'.err = ""
                      /\ pc'[r] = "Services" /\ err'[r] = ""
                      /\ existing'[r] = ret'.result
            /\ (pc[r] = "Close" /\ err[r] = ValidationError /\ pc'[r] # pc[r])
               => pc'[r] \in {"done", "killed"} /\ store' = store
       ]_vars
    /\ [](\A r \in Runs :
            err[r] = ValidationError
            => /\ pc[r] \in {"Close", "done", "killed"}
               /\ existing[r] = {} /\ queried[r] = {} /\ puts[r] = <<>>
               /\ rows[r] = <<>> /\ si[r] = 0)

\* C19, reached: the answer had a good row and then a row with a field
\* unset, and the run is at its Close with the validation error.
C19_Witness ==
    \E r \in Runs :
        /\ pc[r] = "Close" /\ err[r] = ValidationError
        /\ arg # NoCall /\ arg.run = r
        /\ Len(arg.rows) = 2
        /\ ~SomeFieldEmpty(<<arg.rows[1]>>)
        /\ arg.rows[2].Date = <<>>

\* The strings a key is asked for with: those of the rows, and others.
KeyServices == {"svc1", "svc2", "svc3"}
KeySLOs == {"slo1", "slo2", "slo3"}
KeyDates == {<<2015, 5, 8>>, <<2015, 5, 9>>, <<2015, 5, 10>>}

\* Run r is in the sync with the map readBQMap built from the answer
\* arg.rows.
BuiltFrom(r) ==
    /\ arg # NoCall /\ arg.run = r
    /\ pc[r] \in {"Services", "SLOs", "dayStart", "dayEnd", "Put", "finalPut"}

\* The answer has a row with these three strings.
Returned(answer, s, o, d) ==
    \E i \in 1..Len(answer) :
        answer[i].Service = s /\ answer[i].SLO = o /\ answer[i].Date = d

\* C20: with the map of a successful readBQMap, Check(s, o, d) is true
\* exactly when the answer had a row with Service s, SLO o and Date d; rows
\* that agree in the three collapse to one key; and the step that calls
\* Check, for a key that is there or for one that is not, leaves the map
\* as it was.
C20_ContainsExactlyReturned ==
    /\ [](\A r \in Runs :
            BuiltFrom(r) =>
              /\ \A s \in KeyServices, o \in KeySLOs, d \in KeyDates :
                     Check(existing[r], s, o, d) <=> Returned(arg.rows, s, o, d)
              /\ Cardinality(existing[r])
                   = Cardinality({<<arg.rows[i].Service, arg.rows[i].SLO,
                                    arg.rows[i].Date>> : i \in 1..Len(arg.rows)}))
    /\ [][\A r \in Runs :
            (pc[r] = "dayEnd" /\ pc'[r] # "killed") => existing'[r] = existing[r]
       ]_vars

\* C20, reached: the answer had the same row twice, the map has one key,
\* and the run has asked for a key that is there (a day skipped) and for
\* one that is not (a day queried).
C20_Witness ==
    \E r \in Runs :
        /\ BuiltFrom(r) /\ pc[r] = "finalPut"
        /\ Len(arg.rows) = 2 /\ arg.rows[1] = arg.rows[2]
        /\ Cardinality(existing[r]) = 1
        /\ Cardinality(queried[r]) = 1
        /\ \E k \in existing[r] : k.Service = "svc1" /\ k.SLO = "slo1"

\* The SLOs that syncAllServices has to skip: those of another indicator
\* shape than the counts of good and total events.
Unsupported(slo) == slo.SLI.kind \notin {"legacy", "ratio"}

\* The keys of the rows an SLO of the catalog would get.
KeysOfSLO(s, o) ==
    {k \in [Service : {ServiceHumanName(catalog[s])},
            SLO : {SLOHumanName(catalog[s].SLOs[o])},
            Date : {DaysBefore(today, n) : today \in UNION {ranOn[r] : r \in Runs},
                                          n \in 0..(backfillDays + 1)}] : TRUE}

\* The keys of the SLOs that are to be skipped.
UnsupportedKeys ==
    UNION {KeysOfSLO(so[1], so[2]) : so \in
             {x \in UNION {{s} \X (1..Len(catalog[s].SLOs)) : s \in 1..Len(catalog)} :
                 Unsupported(catalog[x[1]].SLOs[x[2]])}}

\* The SLOs of service s after SLO o that are not to be skipped.
LeftToDo(s, o) ==
    {j \in (o + 1)..Len(catalog[s].SLOs) : ~Unsupported(catalog[s].SLOs[j])}

\* Run r goes on from SLO o of service s: to the first SLO left to do, to
\* the next service, or to the final Put.
GoesOnFrom(r, s, o) ==
    IF LeftToDo(s, o) # {}
    THEN /\ pc'[r] = "dayStart" /\ si'[r] = s
         /\ oi'[r] \in LeftToDo(s, o)
         /\ \A j \in LeftToDo(s, o) : oi'[r] <= j
    ELSE IF s < Len(catalog) THEN pc'[r] = "SLOs" /\ si'[r] = s + 1
    ELSE pc'[r] = "finalPut"

\* C21: an SLO that is not on a good/total ratio indicator is passed over:
\* no metric query is made and no row is buffered or put for it, the day
\* loop is never entered for it, and the step that passes over it goes on,
\* without an error, to the next SLO that is not skipped, to the next
\* service, or to the final Put.
C21_UnsupportedSkipped ==
    /\ [](\A r \in Runs :
            /\ (queried[r] \cup KeysWritten(r) \cup KeysBuffered(r))
                   \cap UnsupportedKeys = {}
            /\ pc[r] \in {"dayStart", "dayEnd"}
               => ~Unsupported(catalog[si[r]].SLOs[oi[r]]))
    /\ [][\A r \in Runs :
            /\ (pc[r] = "SLOs" /\ pc'[r] \notin {"SLOs", "Close", "killed"})
               => GoesOnFrom(r, si[r], 0) /\ err'[r] = ""
            /\ (pc[r] \in {"dayEnd", "Put"}
                  /\ pc'[r] \notin {"dayEnd", "Put", "Close", "killed"}
                  /\ ~(pc'[r] = "dayStart" /\ oi'[r] = oi[r] /\ si'[r] = si[r]))
               => GoesOnFrom(r, si[r], oi[r]) /\ err'[r] = ""
       ]_vars

\* C21, reached: with an SLO to skip first in the first service, the run
\* has put rows for the SLO after it and for the SLO of the next service,
\* and has come back from the final Put without an error.
C21_Witness ==
    \E r \in Runs :
        /\ catalog = CatalogSkip
        /\ pc[r] = "Close" /\ err[r] = ""
        /\ \E k \in KeysWritten(r) : k.Service = "svc1" /\ k.SLO = "slo2"
        /\ \E k \in KeysWritten(r) : k.Service = "svc2" /\ k.SLO = "slo3"
        /\ \A k \in KeysWritten(r) : k.SLO # "slo1"

\* A ratio-form SLO with fewer than two of its three filters set.
Incomplete(slo) ==
    /\ slo.SLI.kind = "ratio"
    /\ (IF slo.SLI.Good # "" THEN 1 ELSE 0) + (IF slo.SLI.Bad # "" THEN 1 ELSE 0)
         + (IF slo.SLI.Total # "" THEN 1 ELSE 0) < 2

\* The places <<service, SLO>> of the catalog.
Places == UNION {{s} \X (1..Len(catalog[s].SLOs)) : s \in 1..Len(catalog)}

IncompletePlaces == {x \in Places : Incomplete(catalog[x[1]].SLOs[x[2]])}

\* No row of an incomplete SLO is buffered or put, and no request made.
NoRowOfIncomplete ==
    \A r \in Runs, x \in IncompletePlaces :
        (queried[r] \cup KeysWritten(r) \cup KeysBuffered(r))
            \cap KeysOfSLO(x[1], x[2]) = {}

\* C22, as stated: a run whose catalog has an incomplete ratio-form SLO
\* gets the incomplete-indicator error from it and no row, whatever the
\* index holds: such a run does not return nil.
C22_IncompleteAlwaysFails ==
    /\ NoRowOfIncomplete
    /\ \A r \in Runs :
           (pc[r] = "Close" /\ IncompletePlaces # {}) => err[r] # ""

\* Run r is at a day of an incomplete SLO and takes the step of that day.
AtIncompleteDay(r) ==
    /\ pc[r] = "dayEnd" /\ pc'[r] \notin {"dayEnd", "killed"}
    /\ <<si[r], oi[r]>> \in IncompletePlaces

\* The key of the day run r is at.
DayKey(r) ==
    bqMapKey(ServiceHumanName(catalog[si[r]]),
             SLOHumanName(catalog[si[r]].SLOs[oi[r]]), DateOf(start[r], cfgLoc))

\* C22, amended: an incomplete ratio-form SLO never gets a row or a metric
\* request; at each of its days whose key is not in the index the run ends
\* with the incomplete-indicator error, and at a day whose key is in the
\* index the run goes on without error; so a run returns nil over such an
\* SLO only if the index held keys of it.
C22_IncompleteFailsWhenEvaluated ==
    /\ []NoRowOfIncomplete
    /\ [][\A r \in Runs :
            AtIncompleteDay(r) =>
                IF DayKey(r) \in existing[r]
                THEN pc'[r] # "Close" /\ err'[r] = ""
                ELSE pc'[r] = "Close" /\ err'[r] = IncompleteError
       ]_vars
    /\ [](\A r \in Runs, x \in IncompletePlaces :
            (pc[r] = "Close" /\ err[r] = "")
            => existing[r] \cap KeysOfSLO(x[1], x[2]) # {})

\* C22, reached: the run has put the rows of the SLO before the incomplete
\* one and has ended with the incomplete-indicator error.
C22_Witness ==
    \E r \in Runs :
        /\ catalog = CatalogIncomplete
        /\ pc[r] = "Close" /\ err[r] = IncompleteError
        /\ \E k \in KeysWritten(r) : k.SLO = "slo1"
        /\ \A k \in KeysWritten(r) : k.SLO # "slo2"

\* The call recorded is getGoodTotal on a GoodTotalRatioSLI.
RatioCall == arg # NoCall /\ arg.op = "getGoodTotal" /\ arg.form = "ratio"

\* How many of the three filters an SLI has.
FilterCount(sli) ==
    (IF sli.Good # "" THEN 1 ELSE 0) + (IF sli.Bad # "" THEN 1 ELSE 0)
        + (IF sli.Total # "" THEN 1 ELSE 0)

\* The counts of the backend are whole numbers; and their values.
WholeCounts ==
    arg.valueType = "INT64" \/ (arg.good % 10 = 0 /\ arg.bad % 10 = 0)

CountOf(v) == IF arg.valueType = "INT64" THEN v ELSE v \div 10

\* C23: when the backend's counts good and bad are non-negative whole
\* numbers and its total is good + bad, the SLI with good and total, the
\* one with good and bad and the one with bad and total all evaluate to
\* (Good, Total) = (good, good + bad).
C23_ThreeConfigurationsAgree ==
    (RatioCall /\ WholeCounts /\ FilterCount(arg.sli) = 2)
    => /\ ret = [err |-> "", Good |-> CountOf(arg.good),
                 Total |-> CountOf(arg.good) + CountOf(arg.bad)]
       /\ \A other \in SLIs :
              FilterCount(other) = 2 => getGoodTotalRatio(other, arg.answers) = ret

\* C23, reached: good is derived from bad and total, with events of both
\* kinds.
C23_Witness ==
    /\ RatioCall /\ WholeCounts
    /\ arg.sli.Good = "" /\ arg.sli.Bad # "" /\ arg.sli.Total # ""
    /\ arg.good > 0 /\ arg.bad > 0
    /\ ret.Good = CountOf(arg.good)

\* The call recorded is getCounter.
CounterCall == arg # NoCall /\ arg.op = "getCounter"

\* C25: getCounter returns 0 and no error for an answer without series; an
\* error for an answer with more than one series, for a series that has
\* not exactly one point, and for a value type other than DOUBLE and
\* INT64; and the value of the point otherwise.
C25_CounterShapes ==
    CounterCall =>
        LET ss == arg.resp.series
        IN  IF arg.resp.err THEN ret.err # ""
            ELSE IF Len(ss) = 0 THEN ret = [err |-> "", value |-> 0]
            ELSE IF \/ Len(ss) > 1
                    \/ Len(ss[1].Points) # 1
                    \/ ss[1].ValueType \notin {"DOUBLE", "INT64"}
                 THEN ret.err # "" /\ ret.value = 0
            ELSE /\ ret.err = ""
                 /\ ret.value = IF ss[1].ValueType = "INT64" THEN ss[1].Points[1]
                                ELSE ss[1].Points[1] \div 10

\* C25, reached: getCounter has returned 0 for an answer without series.
C25_Witness ==
    /\ CounterCall /\ ~arg.resp.err /\ arg.resp.series = <<>>
    /\ ret = [err |-> "", value |-> 0]

\* The call recorded is getGoodTotal in the select_slo_counts form, and
\* ListTimeSeries has answered it.
LegacyCall ==
    arg # NoCall /\ arg.op = "getGoodTotal" /\ arg.form = "legacy" /\ ~arg.resp.err

\* An answer of exactly two series, each of one DOUBLE point and labelled
\* good or bad.
TwoGoodBadSeries(ss) ==
    /\ Len(ss) = 2
    /\ \A i \in 1..2 : /\ Len(ss[i].Points) = 1
                       /\ ss[i].ValueType = "DOUBLE"
                       /\ ss[i].event_type \in {"good", "bad"}

\* The evaluation has failed, and the day has no row.
FailedWithoutRow == ret.gt.err # "" /\ ret.rows = <<>>

\* C24, as stated: in the select_slo_counts form an answer is accepted
\* only if it has exactly two series, each of one DOUBLE point and
\* labelled good or bad; every other answer gives an error and no row.
C24_OnlyTwoSeriesAccepted ==
    LegacyCall =>
        IF TwoGoodBadSeries(arg.resp.series)
        THEN ret.gt.err = "" /\ Len(ret.rows) = 1
        ELSE FailedWithoutRow

\* C24, amended: an answer without any series is accepted too, as a day
\* without events: Good = Total = 0, and the row is emitted; every answer
\* that has series must have exactly two, as above, or gives an error and
\* no row.
C24_TwoSeriesOrNone ==
    LegacyCall =>
        IF arg.resp.series = <<>>
        THEN /\ ret.gt = [err |-> "", Good |-> 0, Total |-> 0]
             /\ ret.rows = <<DayRow(ret.gt)>>
        ELSE IF TwoGoodBadSeries(arg.resp.series)
        THEN ret.gt.err = "" /\ ret.rows = <<DayRow(ret.gt)>>
        ELSE FailedWithoutRow

\* C24, reached: two series of one DOUBLE point, the second with another
\* label than good or bad: an error and no row.
C24_Witness ==
    /\ LegacyCall /\ Len(arg.resp.series) = 2
    /\ TwoGoodBadSeries(<<arg.resp.series[1], arg.resp.series[1]>>)
    /\ arg.resp.series[2].event_type = ""
    /\ Len(arg.resp.series[2].Points) = 1
    /\ arg.resp.series[2].ValueType = "DOUBLE"
    /\ FailedWithoutRow

\* The sum, in tenths, of the points of the series with one of the labels.
SumOf(ss, labels) ==
    (IF ss[1].event_type \in labels THEN ss[1].Points[1] ELSE 0)
        + (IF ss[2].event_type \in labels THEN ss[2].Points[1] ELSE 0)

\* C27: in the select_slo_counts form Good is the sum of the series
\* labelled good and Total the sum of the series labelled good and bad, a
\* bad series adding to Total only: good = 100 and bad = 11 give Good = 100
\* and Total = 111.
C27_BadCountsInTotalOnly ==
    (LegacyCall /\ TwoGoodBadSeries(arg.resp.series))
    => /\ ret.gt.Good = SumOf(arg.resp.series, {"good"}) \div 10
       /\ ret.gt.Total = SumOf(arg.resp.series, {"good", "bad"}) \div 10
       /\ (arg.resp.series = << Series("good", "DOUBLE", <<1000>>),
                                Series("bad", "DOUBLE", <<110>>) >>)
          => ret.gt = [err |-> "", Good |-> 100, Total |-> 111]

\* C27, reached: the answer of TestSyncAllServices, 100 good and 11 bad.
C27_Witness ==
    /\ LegacyCall
    /\ arg.resp.series = << Series("good", "DOUBLE", <<1000>>),
                            Series("bad", "DOUBLE", <<110>>) >>
    /\ ret.gt.Good = 100 /\ ret.gt.Total = 111

\* C28, as stated: in every form Total is the truncation of the exact sum
\* of the counters that make it up: good = 0.6 and bad = 0.6 give Total = 1
\* in the select_slo_counts form and in the form with good and bad.
C28_TruncatedAtTheEnd ==
    /\ (LegacyCall /\ TwoGoodBadSeries(arg.resp.series))
       => ret.gt.Total = SumOf(arg.resp.series, {"good", "bad"}) \div 10
    /\ (RatioCall /\ arg.valueType = "DOUBLE" /\ FilterCount(arg.sli) >= 2)
       => ret.err = "" /\ ret.Total = (arg.good + arg.bad) \div 10

\* The same, without the form with good and bad.
TruncatedAtTheEndWithTotal ==
    /\ (LegacyCall /\ TwoGoodBadSeries(arg.resp.series))
       => ret.gt.Total = SumOf(arg.resp.series, {"good", "bad"}) \div 10
    /\ (RatioCall /\ arg.valueType = "DOUBLE" /\ arg.sli.Total # ""
          /\ FilterCount(arg.sli) >= 2)
       => ret.err = "" /\ ret.Total = (arg.good + arg.bad) \div 10

\* A label value that is not a decimal integer: not an optional sign
\* followed by one digit or more.
Malformed(exp) ==
    /\ exp # NoLabel
    /\ LET digits == IF exp[1] \in {"+", "-"} THEN SubSeq(exp, 2, Len(exp)) ELSE exp
       IN  digits = <<>> \/ \E i \in 1..Len(digits) : digits[i] \notin
               {"0", "1", "2", "3", "4", "5", "6", "7", "8", "9"}

MalformedError == "Could not parse BQ lease expiration time"

\* C26: newBqLease, when the label it reads holds a value that is not an
\* integer, returns the malformed-lease error and writes nothing: the run
\* ends there, the label and its etag are as they were, and as long as
\* the label holds such a value no run gets as far as a write.
C26_MalformedLeaseRefused ==
    /\ [][\A r \in Runs :
            ( /\ pc[r] = "readLabel" /\ pc'[r] \notin {"readLabel", "killed"}
              /\ err'[r] # "ReadDatasetMetadataLabel"
              /\ Malformed(label) )
            => /\ pc'[r] = "done" /\ err'[r] = MalformedError
               /\ label' = label /\ etag' = etag
       ]_vars
    /\ [](\A r \in Runs :
            /\ err[r] = MalformedError => pc[r] = "done" /\ Malformed(label)
            /\ Malformed(label) => pc[r] \in {"idle", "readLabel", "done", "killed"})
    /\ [][Malformed(label) => label' = label /\ etag' = etag]_vars

\* C26, reached: a run has ended with the malformed-lease error over the
\* label "123x", which is still there under its first etag.
C26_Witness ==
    \E r \in Runs :
        /\ pc[r] = "done" /\ err[r] = MalformedError
        /\ label = <<"1", "2", "3", "x">> /\ etag = 1

\* The places a run may be at next, after the call it makes at a place:
\* the calls in their order, the deferred Close after an error, and the
\* end of the run where newBqLease has failed.
Following(place) ==
    CASE place = "idle"      -> {"readLabel", "done"}
      [] place = "readLabel" -> {"writeLabel", "done"}
      [] place = "writeLabel" -> {"readBQMap", "done"}
      [] place = "readBQMap" -> {"Services", "Close"}
      [] place = "Services"  -> {"SLOs", "finalPut", "Close"}
      [] place = "SLOs"      -> {"SLOs", "dayStart", "finalPut", "Close"}
      [] place = "dayStart"  -> {"dayEnd"}
      [] place = "dayEnd"    -> {"dayStart", "Put", "SLOs", "finalPut", "Close"}
      [] place = "Put"       -> {"dayStart", "SLOs", "finalPut", "Close"}
      [] place = "finalPut"  -> {"Close"}
      [] place = "Close"     -> {"done"}
      [] OTHER               -> {}

\* C29: the calls of a run come in this order: the read and the write of
\* the lease label, the index query, the listing of the services, then
\* service after service the listing of its SLOs and after it the metric
\* queries and Puts of that service, the final Put, and the release of the
\* lease; the index, the buffers and the table change only at the calls
\* that are between the write of the label and its release, and a run that
\* has released the lease makes no call.
C29_CallOrder ==
    [][\A r \in Runs :
         /\ (pc'[r] # pc[r] /\ pc'[r] # "killed") => pc'[r] \in Following(pc[r])
         /\ (pc[r] = "SLOs" /\ pc'[r] = "SLOs" /\ si'[r] # si[r])
            => si'[r] = si[r] + 1
         /\ (pc[r] = "Services" /\ pc'[r] = "SLOs") => si'[r] = 1
         /\ (pc[r] \in {"dayEnd", "Put"} /\ pc'[r] = "SLOs") => si'[r] = si[r] + 1
         /\ (pc[r] \in {"SLOs", "dayStart", "dayEnd", "Put"} /\ pc'[r] = "dayStart")
            => si'[r] = si[r]
         /\ (pc[r] = "writeLabel" /\ pc'[r] = "readBQMap")
            => label' = FormatInt(Unix(expiration[r]))
         /\ (existing'[r] # existing[r] /\ pc'[r] # "killed") => pc[r] \in {"readBQMap", "Close"}
         /\ (queried'[r] # queried[r] /\ pc'[r] # "killed") => pc[r] \in {"dayEnd", "Close"}
         /\ (puts'[r] # puts[r] /\ pc'[r] # "killed") => pc[r] \in {"Put", "finalPut", "Close"}
         /\ (pc[r] = "Close" /\ pc'[r] # pc[r]) => store' = store
         /\ pc[r] \in {"done", "killed"} => pc'[r] = pc[r]
      ]_vars
    /\ [][store' # store => \E r \in Runs : pc[r] \in {"Put", "finalPut"}]_vars

\* C29, reached: over two services a run has made a Put for each and the
\* final Put, and is at the release of its lease.
C29_Witness ==
    \E r \in Runs :
        /\ Len(catalog) = 2 /\ si[r] = 2
        /\ pc[r] = "Close" /\ err[r] = ""
        /\ Len(puts[r]) = 3


\* The run is at the second reading of the clock of an iteration of
\* newRecords that goes on to query the metrics: the day is not in the
\* bqMap and the SLO's indicator gives a filter to ask with.
AboutToQuery(r) ==
    /\ pc[r] = "dayEnd"
    /\ LET svc == catalog[si[r]]
           slo == svc.SLOs[oi[r]]
       IN  /\ ~Check(existing[r], ServiceHumanName(svc), SLOHumanName(slo),
                     DateOf(start[r], cfgLoc))
           /\ Requests(slo)

\* The interval from `start` to the `end` the second reading of the clock
\* gives is the local calendar day of the row's Date.
OneLocalDay(r) ==
    LET date == DateOf(start[r], cfgLoc)
    IN  /\ start[r] = LocalDayStart(date, cfgLoc)
        /\ daysAgoMidnightTimestamp(now, cfgLoc, daysAgo[r] - 1)
               = LocalDayStart(DayAfter(date), cfgLoc)

\* C30, as stated: for every metric query a run issues, the interval start
\* is local midnight of the row's Date and the interval end is local
\* midnight of the next calendar date, also when the clock passes local
\* midnight between the reading that gives `start` and the one that gives
\* `end`.
C30_IntervalIsOneLocalDay ==
    \A r \in Runs : AboutToQuery(r) => OneLocalDay(r)

\* The same for the queries whose two readings of the clock fall on one
\* local date.
IntervalIsOneLocalDaySameDate ==
    \A r \in Runs :
        (AboutToQuery(r)
         /\ DateOf(now, cfgLoc) = DaysBefore(DateOf(start[r], cfgLoc), 0 - daysAgo[r]))
        => OneLocalDay(r)

\* A query is about to be issued with readings of the clock on two local
\* dates.
QueryAcrossMidnight ==
    \E r \in Runs :
        /\ AboutToQuery(r)
        /\ DateOf(now, cfgLoc) # DaysBefore(DateOf(start[r], cfgLoc), 0 - daysAgo[r])

\* The key of the day the run is at in newRecords.
VisitedKey(r) ==
    bqMapKey(ServiceHumanName(catalog[si[r]]),
             SLOHumanName(catalog[si[r]].SLOs[oi[r]]),
             DateOf(start[r], cfgLoc))

\* The keys of the rows of the table.
StoreKeys == {KeyOf(row) : row \in BagToSet(store)}

AcquireErrors ==
    {"ReadDatasetMetadataLabel", "Could not parse BQ lease expiration time",
     "existing lease is still valid", "Could not update BQ lease"}

\* C32: a step in which newBqLease fails (the read fails, the label does
\* not parse, the lease is still valid, or the write fails or is refused
\* under the etag read) ends the run at once with that error, with the
\* label, the etag and the table as they were and nothing queried, listed
\* or put; the run takes no step after it; a run comes to its Close only
\* from a place after a successful newBqLease; and the label changes only
\* in the successful write of a newBqLease or in a Close.
C32_FailedAcquireDoesNothing ==
    /\ [][\A r \in Runs :
            /\ (pc[r] \in {"readLabel", "writeLabel"} /\ err'[r] # "")
               => /\ pc'[r] = "done"
                  /\ err'[r] \in AcquireErrors
                  /\ label' = label /\ etag' = etag /\ store' = store
                  /\ existing'[r] = {} /\ queried'[r] = {} /\ puts'[r] = <<>>
            /\ (pc[r] = "done" /\ err[r] \in AcquireErrors)
               => /\ pc'[r] = "done" /\ err'[r] = err[r]
                  /\ existing'[r] = {} /\ queried'[r] = {} /\ puts'[r] = <<>>
            /\ (pc'[r] = "Close" /\ pc[r] # "Close")
               => (MidFlight(r) /\ err[r] = "")
            /\ (pc'[r] = "readBQMap" /\ pc[r] # "readBQMap")
               => (pc[r] = "writeLabel" /\ err[r] = "")
       ]_vars
    /\ [][label' # label
          => \E r \in Runs : \/ pc[r] = "writeLabel" /\ pc'[r] = "readBQMap"
                             \/ pc[r] = "Close" /\ pc'[r] = "done"]_vars

\* C32, reached: a run has returned "existing lease is still valid" while
\* the run that holds the lease is at work, and the label is still the
\* holder's expiration.
C32_Witness ==
    \E r, q \in Runs :
        /\ r # q
        /\ pc[r] = "done" /\ err[r] = "existing lease is still valid"
        /\ MidFlight(q) /\ pc[q] # "Close"
        /\ label = FormatInt(Unix(expiration[q]))

\* A step of newRecords that appends the row of the visited day to the rows
\* of the SLO at hand: the day is not in the bqMap and getGoodTotal
\* returned no error.
AppendsRow(r) ==
    /\ pc[r] = "dayEnd"
    /\ pc'[r] \notin {"dayEnd", "killed"}
    /\ err'[r] = ""
    /\ VisitedKey(r) \notin existing[r]

\* The dates of the rows newRecords has so far for the SLO at hand.
DatesOfSLO(r) == {res[r][i].Date : i \in 1..Len(res[r])}

\* C33, as stated: within one run, for a given service and SLO, newRecords
\* never appends a row with the Date of a row it already has for that SLO,
\* also when the clock passes local midnight between two iterations of the
\* day loop.
C33_NoRepeatedDate ==
    [][\A r \in Runs : AppendsRow(r) => VisitedKey(r).Date \notin DatesOfSLO(r)]_vars

\* The same for the runs that have read one local date from the clock.
NoRepeatedDateOnOneDate ==
    [][\A r \in Runs :
         (AppendsRow(r) /\ Cardinality(ranOn'[r]) = 1)
         => VisitedKey(r).Date \notin DatesOfSLO(r)]_vars

\* The rows run r has passed to Put have pairwise distinct keys: as many
\* keys as rows.
DistinctKeysPut(r) == RowsPut(r) = Cardinality(KeysWritten(r))

\* C34, as stated, for the runs that have read one local date from the
\* clock: the rows a run has written have pairwise distinct (Service, SLO,
\* Date) keys, for every catalog, those in which two SLOs of one service
\* have the same human-readable name included.
C34_DistinctKeysInRun ==
    \A r \in Runs : Cardinality(ranOn[r]) <= 1 => DistinctKeysPut(r)

\* The same for the catalogs whose human-readable names are pairwise
\* different.
DistinctKeysUnderDistinctNames ==
    \A r \in Runs :
        (Cardinality(ranOn[r]) <= 1 /\ catalog # CatalogSameName)
        => DistinctKeysPut(r)

\* getGoodTotal has been called on a GoodTotalRatioSLI and any counts,
\* and the row of the day has been appended.
RowOfCounts ==
    /\ arg # NoCall /\ arg.op = "getGoodTotal"
    /\ ret.rows # <<>>

\* C35, as stated: every row produced satisfies 0 <= Good <= Total, for
\* every indicator shape and all non-negative counts the metrics backend
\* may return, bad > total in the bad + total shape and good > total in the
\* good + total shape included.
C35_GoodWithinTotal ==
    RowOfCounts => \A i \in 1..Len(ret.rows) :
                      0 <= ret.rows[i].Good /\ ret.rows[i].Good <= ret.rows[i].Total

\* The same for the answers to select_slo_counts, for the good + bad shape,
\* and for the counts of the two filters asked that are consistent: good
\* and bad not above total.
GoodWithinTotalWhenConsistent ==
    ( /\ RowOfCounts
      /\ \/ arg.form = "legacy"
         \/ arg.sli.Total = ""
         \/ arg.sli.Good # "" /\ arg.good <= arg.total
         \/ arg.sli.Good = "" /\ arg.bad <= arg.total )
    => \A i \in 1..Len(ret.rows) :
          0 <= ret.rows[i].Good /\ ret.rows[i].Good <= ret.rows[i].Total

\* A row has been produced in the bad + total shape from bad > total.
RowOfBadAboveTotal ==
    /\ RowOfCounts /\ arg.form = "ratio"
    /\ arg.sli.Good = "" /\ arg.bad > arg.total

\* The row a step of newRecords has appended: the last of the rows of the
\* SLO, or of the buffer of syncAllServices when the SLO is done.
Appended(r) ==
    IF res'[r] # <<>> THEN res'[r][Len(res'[r])] ELSE rows'[r][Len(rows'[r])]

\* The SLO the run is at.
VisitedSLO(r) == catalog[si[r]].SLOs[oi[r]]

\* The table holds a row of key k with Good = 0 and Total = 0.
ZeroStored(k) ==
    \E row \in BagToSet(store) : KeyOf(row) = k /\ row.Good = 0 /\ row.Total = 0

\* The rows a run holds in the buffers of newRecords and syncAllServices.
RowsHeld(r) == Len(res[r]) + Len(rows[r])

\* C36: at an un-indexed day of an SLO for which the backend may answer
\* without time series, getGoodTotal may return (0, 0) and no error; the
\* row a run appends for a day has the day's key and the counts getGoodTotal
\* returned; and a run that visits a day whose row with Good = 0 and Total
\* = 0 an earlier run has stored finds the day in its bqMap and passes it
\* by: no metric query, no row, no error, the table as it was, whatever the
\* backend would answer by then.
C36_ZeroRowKept ==
    /\ [](\A r \in Runs :
            ( /\ pc[r] = "dayEnd"
              /\ Quiet(VisitedSLO(r))
              /\ VisitedKey(r) \notin existing[r] )
            => [err |-> "", Good |-> 0, Total |-> 0] \in GoodTotals(VisitedSLO(r)))
    /\ [][\A q \in Runs :
            /\ AppendsRow(q)
               => /\ KeyOf(Appended(q)) = VisitedKey(q)
                  /\ [err |-> "", Good |-> Appended(q).Good,
                      Total |-> Appended(q).Total] \in GoodTotals(VisitedSLO(q))
            /\ ( /\ pc[q] = "dayEnd" /\ pc'[q] \notin {"dayEnd", "killed"}
                 /\ ZeroStored(VisitedKey(q))
                 /\ VisitedKey(q) \notin KeysWritten(q) )
               => /\ VisitedKey(q) \in existing[q]
                  /\ queried'[q] = queried[q]
                  /\ RowsHeld(q)' = RowsHeld(q)
                  /\ err'[q] = "" /\ store' = store
       ]_vars

\* C36, reached: a run has returned nil without a metric query and without
\* a row, every day of its SLO being in its bqMap, one of them stored with
\* Good = 0 and Total = 0 by an earlier run.
C36_Witness ==
    \E q \in Runs :
        /\ pc[q] = "Close" /\ err[q] = ""
        /\ queried[q] = {} /\ RowsPut(q) = 0
        /\ Cardinality(existing[q]) = backfillDays
        /\ \E k \in existing[q] : ZeroStored(k)

\* C37: the buffer of syncAllServices is compared with the batch size only
\* after a whole SLO: it grows only in the step that ends the last day of
\* an SLO, and only that step leads to a batch Put; at every other place of
\* the enumeration it holds fewer than batchSize rows; every Put but the
\* final one carries at least batchSize rows; and no Put carries more than
\* batchSize - 1 + backfillDays rows.
C37_BatchAfterWholeSLO ==
    /\ [](\A r \in Runs :
            MidFlight(r)
            => /\ pc[r] \in {"Services", "SLOs", "dayStart", "dayEnd", "finalPut"}
                  => Len(rows[r]) < batchSize
               /\ pc[r] = "Put" => Len(rows[r]) >= batchSize
               /\ \A i \in 1..Len(puts[r]) :
                     /\ Len(puts[r][i]) <= batchSize - 1 + backfillDays
                     /\ (i < Len(puts[r]) \/ pc[r] # "Close")
                        => Len(puts[r][i]) >= batchSize)
    /\ [][\A r \in Runs :
            /\ (pc[r] # "Put" /\ pc'[r] = "Put")
               => (pc[r] = "dayEnd" /\ daysAgo[r] = backfillDays)
            /\ (Len(rows'[r]) > Len(rows[r]))
               => /\ pc[r] = "dayEnd" /\ daysAgo[r] = backfillDays
                  /\ Len(rows'[r]) <= Len(rows[r]) + backfillDays
            /\ (pc[r] = "Put" /\ puts'[r] # puts[r] /\ pc'[r] # "killed")
               => /\ puts'[r] = Append(puts[r], rows[r])
                  /\ Len(rows[r]) >= batchSize
       ]_vars

\* C37, reached: with batch size 2 a run has put a batch of batchSize - 1 +
\* backfillDays rows: one row left by an SLO with one new day, and the rows
\* of all the days of the next SLO.
C37_Witness ==
    \E r \in Runs :
        /\ batchSize = 2
        /\ InSync(r)
        /\ \E i \in 1..Len(puts[r]) : Len(puts[r][i]) = batchSize - 1 + backfillDays

\* The SLI of the call has the three filters.
AllThree == arg.sli.Good # "" /\ arg.sli.Bad # "" /\ arg.sli.Total # ""

\* C38: an evaluation of a GoodTotalRatioSLI calls getCounter at most
\* twice, exactly twice when it returns no error, and on filters of the
\* SLI only; with the three filters set the SLI is taken, good is asked
\* and then total, bad is not asked, Good and Total are the two counters
\* as they came, and the result is the same whatever the answer to the bad
\* filter would be.
C38_AtMostTwoCounters ==
    RatioCall
    => /\ Len(ret.asked) <= 2
       /\ ret.gt.err = "" => Len(ret.asked) = 2
       /\ \A i \in 1..Len(ret.asked) :
             ret.asked[i] \in {arg.sli.Good, arg.sli.Bad, arg.sli.Total} \ {""}
       /\ AllThree
          => /\ ret.gt.err # IncompleteError
             /\ ret.asked \in {<<arg.sli.Good>>, <<arg.sli.Good, arg.sli.Total>>}
             /\ ret.gt.err = ""
                => /\ ret.gt.Good = getCounter(arg.answers[arg.sli.Good]).value
                   /\ ret.gt.Total = getCounter(arg.answers[arg.sli.Total]).value
             /\ \A a \in AskedAnswers :
                   LET other == [arg.answers EXCEPT ![arg.sli.Bad] = a]
                   IN  /\ getGoodTotalRatio(arg.sli, other) = ret.gt
                       /\ CountersAsked(arg.sli, other) = ret.asked

\* C38, reached: an SLI with the three filters has been evaluated without
\* error on counts that do not add up (good + bad is not total), with two
\* calls of getCounter: good, then total.
C38_Witness ==
    /\ RatioCall /\ AllThree
    /\ ret.gt.err = ""
    /\ ret.asked = <<arg.sli.Good, arg.sli.Total>>
    /\ getCounter(arg.answers[arg.sli.Bad]).err = ""
    /\ ret.gt.Good + getCounter(arg.answers[arg.sli.Bad]).value # ret.gt.Total

====
